---- MODULE Spec2Model ----
(***************************************************************************)
(* Schema-variant composition as used by the VariantSchema and Model       *)
(* guides: one record type is declared once, under a fixed list of named   *)
(* variants, and one schema per variant is derived from it.                *)
(*                                                                         *)
(* The field mappings, the variant configurations, the Model-style helpers *)
(* (Generated, Sensitive, DateTimeInsert, DateTimeUpdate) and the example  *)
(* payloads are the ones written in the example programs.  The engine the  *)
(* examples call (Field, FieldOnly, FieldExcept, fieldFromKey, Struct,     *)
(* extract, Class) is imported by them from a library; it is modelled from *)
(* its description in the design document.                                 *)
(***************************************************************************)
EXTENDS Integers, Sequences, FiniteSets, TLC

VARIABLES cfg, decl, extras, phase, error, struct, extracted, cls, codec,
          cache, callers, returned

\* The memoized extractor: its cache, its callers and what it has returned.
memo == <<cache, callers, returned>>

vars == <<cfg, decl, extras, phase, error, struct, extracted, cls, codec,
          cache, callers, returned>>

(***************************************************************************)
(* Bounds of the model.                                                    *)
(***************************************************************************)
\* Fields a caller declares beyond (or instead of) an example's mapping.
MaxExtra == 1

(***************************************************************************)
(* Helpers on sequences and functions.                                     *)
(***************************************************************************)
Range(s) == {s[i] : i \in DOMAIN s}

NoMap == [v \in {} |-> "-"]

NoKey == ""

NoDescriptor == "-"

NoValue == [none |-> TRUE]

(***************************************************************************)
(* The variant configurations the examples create with VariantSchema.make. *)
(***************************************************************************)
EnvironmentConfig ==
    [variants |-> <<"development", "staging", "production">>,
     defaultVariant |-> "development"]

BasicConfig ==
    [variants |-> <<"api", "database">>, defaultVariant |-> "api"]

AdvancedConfig ==
    [variants |-> <<"database", "api", "graphql">>, defaultVariant |-> "api"]

ResponsiveConfig ==
    [variants |-> <<"mobile", "desktop">>, defaultVariant |-> "desktop"]

ProductConfig ==
    [variants |-> <<"create", "update", "response">>,
     defaultVariant |-> "response"]

CrudConfig ==
    [variants |-> <<"create", "update", "response", "list">>,
     defaultVariant |-> "response"]

SqlConfig ==
    [variants |-> <<"select", "insert", "update", "json", "jsonCreate",
                    "jsonUpdate">>,
     defaultVariant |-> "select"]

Configs ==
    {EnvironmentConfig, BasicConfig, AdvancedConfig, ResponsiveConfig,
     ProductConfig, CrudConfig, SqlConfig}

VariantsOf(c) == Range(c.variants)

(***************************************************************************)
(* A field of a field mapping, as written: its name and the expression     *)
(* that builds it.  helper is "Schema" for a plain descriptor.             *)
(*   vs : the variant list of FieldOnly / FieldExcept                      *)
(*   m  : the per-variant map of Field (variant -> descriptor) or of       *)
(*        fieldFromKey (variant -> key)                                    *)
(*   d  : the descriptor argument                                          *)
(***************************************************************************)
Plain(name, d) ==
    [name |-> name, helper |-> "Schema", vs |-> {}, m |-> NoMap, d |-> d]

DeclField(name, m) ==
    [name |-> name, helper |-> "Field", vs |-> {}, m |-> m,
     d |-> NoDescriptor]

DeclFieldOnly(name, vs, d) ==
    [name |-> name, helper |-> "FieldOnly", vs |-> vs, m |-> NoMap, d |-> d]

DeclFieldExcept(name, vs, d) ==
    [name |-> name, helper |-> "FieldExcept", vs |-> vs, m |-> NoMap, d |-> d]

DeclFromKey(name, m, d) ==
    [name |-> name, helper |-> "fieldFromKey", vs |-> {}, m |-> m, d |-> d]

DeclPreset(name, preset, d) ==
    [name |-> name, helper |-> preset, vs |-> {}, m |-> NoMap, d |-> d]

\* fieldEvolve(transforms)(base): base is the written field it evolves and
\* t maps variants to transforms.
DeclEvolve(name, base, t) ==
    [name |-> name, helper |-> "fieldEvolve", vs |-> {}, m |-> NoMap,
     d |-> NoDescriptor, base |-> base, t |-> t]

(***************************************************************************)
(* The field mappings of the example programs.                             *)
(***************************************************************************)
\* ApiConfig with retries declared for production alone.
ApiConfigRetriesProductionOnly ==
    << Plain("baseUrl", "String"),
       DeclField("timeout", [development |-> "Number", staging |-> "Number",
                             production |-> "Number"]),
       DeclFieldOnly("retries", {"production"}, "Number"),
       DeclFieldExcept("debug", {"production"}, "Boolean"),
       DeclField("rateLimitPerMinute",
                 [development |-> "Number", staging |-> "Number",
                  production |-> "Number"]) >>

\* ApiConfig with the timeout declared for a variant nobody declared.
ApiConfigTimeoutForTesting ==
    << Plain("baseUrl", "String"),
       DeclField("timeout", [development |-> "Number", testing |-> "Number",
                             production |-> "Number"]),
       DeclFieldOnly("retries", {"production", "staging"}, "Number"),
       DeclFieldExcept("debug", {"production"}, "Boolean"),
       DeclField("rateLimitPerMinute",
                 [development |-> "Number", staging |-> "Number",
                  production |-> "Number"]) >>

\* ApiConfig with retries written as a map whose descriptors differ.
ApiConfigRetriesPerVariant ==
    << Plain("baseUrl", "String"),
       DeclField("timeout", [development |-> "Number", staging |-> "Number",
                             production |-> "Number"]),
       DeclField("retries", [production |-> "Number", staging |-> "String"]),
       DeclFieldExcept("debug", {"production"}, "Boolean"),
       DeclField("rateLimitPerMinute",
                 [development |-> "Number", staging |-> "Number",
                  production |-> "Number"]) >>

\* environment-config.ts: ApiConfig
ApiConfig ==
    << Plain("baseUrl", "String"),
       DeclField("timeout", [development |-> "Number", staging |-> "Number",
                             production |-> "Number"]),
       DeclFieldOnly("retries", {"production", "staging"}, "Number"),
       DeclFieldExcept("debug", {"production"}, "Boolean"),
       DeclField("rateLimitPerMinute",
                 [development |-> "Number", staging |-> "Number",
                  production |-> "Number"]) >>

\* UserModel with the password written as a plain descriptor.
BasicUserModelPlainPassword ==
    << Plain("id", "Number"),
       Plain("name", "String"),
       Plain("password", "String"),
       DeclField("email", [api |-> "Email", database |-> "String"]) >>

\* environment-config.ts (second program): UserModel
BasicUserModel ==
    << Plain("id", "Number"),
       Plain("name", "String"),
       DeclField("password", [database |-> "String"]),
       DeclField("email", [api |-> "Email", database |-> "String"]) >>

\* UserModel with the password hash declared for the API variant.
UserModelPasswordInApi ==
    << Plain("id", "UserId"),
       Plain("email", "Email"),
       DeclFieldOnly("passwordHash", {"api"}, "String"),
       DeclFromKey("fullName",
                   [database |-> "full_name", api |-> "fullName",
                    graphql |-> "displayName"], "String"),
       DeclField("createdAt", [database |-> "Number", api |-> "String",
                               graphql |-> "String"]),
       DeclField("profile", [database |-> "String", api |-> "ApiProfile",
                             graphql |-> "GraphqlProfile"]) >>

\* UserModel with the API variant keyed like the database.
UserModelSnakeCaseApi ==
    << Plain("id", "UserId"),
       Plain("email", "Email"),
       DeclFieldOnly("passwordHash", {"database"}, "String"),
       DeclFromKey("fullName",
                   [database |-> "full_name", api |-> "full_name",
                    graphql |-> "displayName"], "String"),
       DeclField("createdAt", [database |-> "Number", api |-> "String",
                               graphql |-> "String"]),
       DeclField("profile", [database |-> "String", api |-> "ApiProfile",
                             graphql |-> "GraphqlProfile"]) >>

\* UserModel with the API key of fullName colliding with email.
UserModelFullNameAsEmail ==
    << Plain("id", "UserId"),
       Plain("email", "Email"),
       DeclFieldOnly("passwordHash", {"database"}, "String"),
       DeclFromKey("fullName",
                   [database |-> "full_name", api |-> "email",
                    graphql |-> "displayName"], "String"),
       DeclField("createdAt", [database |-> "Number", api |-> "String",
                               graphql |-> "String"]),
       DeclField("profile", [database |-> "String", api |-> "ApiProfile",
                             graphql |-> "GraphqlProfile"]) >>

\* variant-schema-advanced.ts: UserModel
UserModel ==
    << Plain("id", "UserId"),
       Plain("email", "Email"),
       DeclFieldOnly("passwordHash", {"database"}, "String"),
       DeclFromKey("fullName",
                   [database |-> "full_name", api |-> "fullName",
                    graphql |-> "displayName"], "String"),
       DeclField("createdAt", [database |-> "Number", api |-> "String",
                               graphql |-> "String"]),
       DeclField("profile", [database |-> "String", api |-> "ApiProfile",
                             graphql |-> "GraphqlProfile"]) >>

\* Button with every field declared for mobile alone.
ButtonMobileOnly ==
    << DeclFieldOnly("text", {"mobile"}, "String"),
       DeclField("padding", [mobile |-> "Number"]),
       DeclField("fontSize", [mobile |-> "Number"]) >>

\* Responsive Button
Button ==
    << Plain("text", "String"),
       DeclField("padding", [mobile |-> "Number", desktop |-> "Number"]),
       DeclField("fontSize", [mobile |-> "Number", desktop |-> "Number"]) >>

\* Product with the id left out of update instead of create.
ProductIdExceptUpdate ==
    << DeclFieldExcept("id", {"update"}, "ProductId"),
       Plain("name", "NonEmptyString"),
       Plain("description", "String"),
       Plain("price", "PositiveNumber"),
       DeclFieldOnly("createdAt", {"response"}, "String"),
       DeclFieldExcept("updatedAt", {"create"}, "String") >>

\* Product with the id left out of every variant.
ProductIdExceptAll ==
    << DeclFieldExcept("id", {"create", "update", "response"}, "ProductId"),
       Plain("name", "NonEmptyString"),
       Plain("description", "String"),
       Plain("price", "PositiveNumber"),
       DeclFieldOnly("createdAt", {"response"}, "String"),
       DeclFieldExcept("updatedAt", {"create"}, "String") >>

\* Product class
Product ==
    << DeclFieldExcept("id", {"create"}, "ProductId"),
       Plain("name", "NonEmptyString"),
       Plain("description", "String"),
       Plain("price", "PositiveNumber"),
       DeclFieldOnly("createdAt", {"response"}, "String"),
       DeclFieldExcept("updatedAt", {"create"}, "String") >>

\* Task with the id left out of the list view instead of create.
TaskIdExceptList ==
    << DeclFieldExcept("id", {"list"}, "TaskId"),
       DeclFieldExcept("title", {"list"}, "NonEmptyString"),
       DeclFieldExcept("description", {"list"}, "OptionalString"),
       DeclFromKey("status",
                   [create |-> "initialStatus", update |-> "status",
                    response |-> "status", list |-> "status"], "Status"),
       DeclField("priority",
                 [create |-> "OptionalPriority", update |-> "Priority",
                  response |-> "Priority", list |-> "Priority"]),
       DeclFieldExcept("assigneeId", {"list"}, "OptionalUserId"),
       DeclFieldOnly("createdAt", {"response"}, "String"),
       DeclFieldOnly("updatedAt", {"response"}, "String"),
       DeclFieldOnly("summary", {"list"}, "String") >>

\* Task class
Task ==
    << DeclFieldExcept("id", {"create"}, "TaskId"),
       DeclFieldExcept("title", {"list"}, "NonEmptyString"),
       DeclFieldExcept("description", {"list"}, "OptionalString"),
       DeclFromKey("status",
                   [create |-> "initialStatus", update |-> "status",
                    response |-> "status", list |-> "status"], "Status"),
       DeclField("priority",
                 [create |-> "OptionalPriority", update |-> "Priority",
                  response |-> "Priority", list |-> "Priority"]),
       DeclFieldExcept("assigneeId", {"list"}, "OptionalUserId"),
       DeclFieldOnly("createdAt", {"response"}, "String"),
       DeclFieldOnly("updatedAt", {"response"}, "String"),
       DeclFieldOnly("summary", {"list"}, "String") >>

\* SQL-pattern User class
User ==
    << DeclPreset("id", "Generated", "UserId"),
       Plain("email", "Email"),
       Plain("username", "NonEmptyString"),
       DeclPreset("passwordHash", "Sensitive", "String"),
       Plain("firstName", "OptionalString"),
       Plain("lastName", "OptionalString"),
       DeclField("preferences",
                 [select |-> "String", insert |-> "String",
                  update |-> "String", json |-> "Preferences",
                  jsonCreate |-> "Preferences",
                  jsonUpdate |-> "Preferences"]),
       DeclPreset("createdAt", "DateTimeInsert", NoDescriptor),
       DeclPreset("updatedAt", "DateTimeUpdate", NoDescriptor) >>

\* The example mapping declared under each configuration.
ExampleOf(c) ==
    CASE c = EnvironmentConfig -> ApiConfig
      [] c = BasicConfig       -> BasicUserModel
      [] c = AdvancedConfig    -> UserModel
      [] c = ResponsiveConfig  -> Button
      [] c = ProductConfig     -> Product
      [] c = CrudConfig        -> Task
      [] c = SqlConfig         -> User

\* Descriptors built with Schema.optional: the key may be left out.
OptionalDescriptors == {"OptionalString", "OptionalPriority", "OptionalUserId"}

(***************************************************************************)
(* The example payloads the programs write for a variant: the variant and  *)
(* the keys of the object literal.                                         *)
(***************************************************************************)
Payload(v, keys) == [variant |-> v, keys |-> keys]

ApiConfigPayloads ==
    { Payload("development",
              {"baseUrl", "timeout", "debug", "rateLimitPerMinute"}),
      Payload("staging",
              {"baseUrl", "timeout", "retries", "debug",
               "rateLimitPerMinute"}),
      Payload("production",
              {"baseUrl", "timeout", "retries", "rateLimitPerMinute"}) }

BasicUserModelPayloads ==
    { Payload("api", {"id", "name", "email"}),
      Payload("database", {"id", "name", "email", "password"}) }

UserModelPayloads ==
    { Payload("database",
              {"id", "email", "passwordHash", "full_name", "createdAt",
               "profile"}),
      Payload("api", {"id", "email", "fullName", "createdAt", "profile"}),
      Payload("graphql",
              {"id", "email", "displayName", "createdAt", "profile"}) }

ButtonPayloads ==
    { Payload("mobile", {"text", "padding", "fontSize"}),
      Payload("desktop", {"text", "padding", "fontSize"}) }

ProductPayloads ==
    { Payload("create", {"name", "description", "price"}),
      Payload("update", {"id", "name", "description", "price", "updatedAt"}),
      Payload("response",
              {"id", "name", "description", "price", "createdAt",
               "updatedAt"}) }

TaskPayloads ==
    { Payload("create",
              {"title", "description", "initialStatus", "priority",
               "assigneeId"}),
      Payload("update",
              {"id", "title", "description", "status", "priority",
               "assigneeId"}),
      Payload("response",
              {"id", "title", "description", "status", "priority",
               "assigneeId", "createdAt", "updatedAt"}),
      Payload("list", {"id", "status", "priority", "summary"}) }

UserPayloads ==
    { Payload("insert",
              {"email", "username", "passwordHash", "firstName",
               "preferences", "createdAt", "updatedAt"}),
      Payload("jsonCreate",
              {"email", "username", "firstName", "preferences"}) }

PayloadsOf(c) ==
    CASE c = EnvironmentConfig -> ApiConfigPayloads
      [] c = BasicConfig       -> BasicUserModelPayloads
      [] c = AdvancedConfig    -> UserModelPayloads
      [] c = ResponsiveConfig  -> ButtonPayloads
      [] c = ProductConfig     -> ProductPayloads
      [] c = CrudConfig        -> TaskPayloads
      [] c = SqlConfig         -> UserPayloads

(***************************************************************************)
(* Values: what a payload holds under a key and what a canonical entity    *)
(* holds under a field name.  A number is its integer part and its         *)
(* hundredths; an object is the sequence of its properties as written.     *)
(***************************************************************************)
Str(s) == [kind |-> "string", s |-> s]

Dec(n, hundredths) == [kind |-> "number", n |-> n, frac |-> hundredths]

Num(n) == Dec(n, 0)

Bool(b) == [kind |-> "boolean", b |-> b]

Arr(items) == [kind |-> "array", items |-> items]

Prop(k, v) == [k |-> k, v |-> v]

Obj(props) == [kind |-> "object", props |-> props]

Undefined == [kind |-> "undefined"]

IsString(x) == x.kind = "string"

IsNumber(x) == x.kind = "number"

IsBoolean(x) == x.kind = "boolean"

HasProp(x, k) == \E i \in DOMAIN x.props : x.props[i].k = k

PropOf(x, k) ==
    x.props[CHOOSE i \in DOMAIN x.props :
                /\ x.props[i].k = k
                /\ \A j \in DOMAIN x.props : x.props[j].k = k => j <= i].v

(***************************************************************************)
(* JSON text, as JSON.stringify writes it and JSON.parse reads it, for the *)
(* values the examples serialise: strings without escapes, integers,       *)
(* booleans, arrays and objects.                                           *)
(***************************************************************************)
Quote == "\""

Char(s, i) == IF i \in 1..Len(s) THEN SubSeq(s, i, i) ELSE ""

TwoDigits(n) == IF n < 10 THEN "0" \o ToString(n) ELSE ToString(n)

RECURSIVE Stringify(_)
RECURSIVE StringifyItems(_, _)
RECURSIVE StringifyProps(_, _)
StringifyUnquoted(x) ==
    CASE x.kind = "string"  -> x.s
      [] x.kind = "number"  ->
            IF x.frac = 0 THEN ToString(x.n)
            ELSE ToString(x.n) \o "." \o TwoDigits(x.frac)
      [] x.kind = "boolean" -> IF x.b THEN "true" ELSE "false"
      [] x.kind = "array"   -> "[" \o StringifyItems(x.items, 1) \o "]"
      [] x.kind = "object"  -> "{" \o StringifyProps(x.props, 1) \o "}"

Stringify(x) ==
    CASE x.kind = "string"  -> Quote \o x.s \o Quote
      [] x.kind = "number"  ->
            IF x.frac = 0 THEN ToString(x.n)
            ELSE ToString(x.n) \o "." \o TwoDigits(x.frac)
      [] x.kind = "boolean" -> IF x.b THEN "true" ELSE "false"
      [] x.kind = "array"   -> "[" \o StringifyItems(x.items, 1) \o "]"
      [] x.kind = "object"  -> "{" \o StringifyProps(x.props, 1) \o "}"

StringifyItems(items, i) ==
    IF i > Len(items) THEN ""
    ELSE (IF i > 1 THEN "," ELSE "") \o Stringify(items[i])
            \o StringifyItems(items, i + 1)

StringifyProps(props, i) ==
    IF i > Len(props) THEN ""
    ELSE (IF i > 1 THEN "," ELSE "") \o Quote \o props[i].k \o Quote \o ":"
            \o Stringify(props[i].v) \o StringifyProps(props, i + 1)

\* The result of reading a value at position i: the value and the position
\* after it, or a failure.
Parsed(x, next) == [ok |-> TRUE, value |-> x, next |-> next]

ParseFailure == [ok |-> FALSE]

RECURSIVE SkipSpaces(_, _)
SkipSpaces(s, i) ==
    IF Char(s, i) = " " THEN SkipSpaces(s, i + 1) ELSE i

\* The position of the quote closing the string literal whose text starts
\* at i, 0 when there is none or the text has an escape.
RECURSIVE ClosingQuote(_, _)
ClosingQuote(s, i) ==
    IF i > Len(s) \/ Char(s, i) = "\\" THEN 0
    ELSE IF Char(s, i) = Quote THEN i
    ELSE ClosingQuote(s, i + 1)

ParseStringLiteral(s, i) ==
    IF Char(s, i) # Quote THEN ParseFailure
    ELSE LET j == ClosingQuote(s, i + 1) IN
         IF j = 0 THEN ParseFailure
         ELSE Parsed(Str(SubSeq(s, i + 1, j - 1)), j + 1)

\* The elements of an array of string literals, from position i, the
\* opening bracket already read.
RECURSIVE ParseElements(_, _, _)
ParseElements(s, i, items) ==
    LET e == ParseStringLiteral(s, SkipSpaces(s, i)) IN
    IF ~e.ok THEN ParseFailure
    ELSE LET j == SkipSpaces(s, e.next) IN
         IF Char(s, j) = "," THEN ParseElements(s, j + 1, Append(items, e.value))
         ELSE IF Char(s, j) = "]" THEN Parsed(Arr(Append(items, e.value)), j + 1)
         ELSE ParseFailure

\* JSON.parse of the text of an array of strings; any other text fails to
\* read as one.
ParseStringArray(s) ==
    LET i == SkipSpaces(s, 1) IN
    IF Char(s, i) # "[" THEN ParseFailure
    ELSE LET j == SkipSpaces(s, i + 1) IN
         LET r == IF Char(s, j) = "]" THEN Parsed(Arr(<<>>), j + 1)
                  ELSE ParseElements(s, j, <<>>)
         IN IF r.ok /\ SkipSpaces(s, r.next) = Len(s) + 1 THEN r
            ELSE ParseFailure

(***************************************************************************)
(* The example payloads with their values.  now is what                    *)
(* new Date().toISOString() returns when the literal is evaluated.         *)
(***************************************************************************)
Clock == {"2024-01-01T10:00:00.000Z", "2024-01-01T15:30:00.000Z"}

Value(v, x) == [variant |-> v, value |-> x]

ApiConfigValues ==
    { Value("development",
            [baseUrl |-> Str("http://localhost:3000/api"),
             timeout |-> Num(5000),
             debug |-> Bool(TRUE),
             rateLimitPerMinute |-> Num(100)]),
      Value("staging",
            [baseUrl |-> Str("https://staging-api.example.com"),
             timeout |-> Num(10000),
             retries |-> Num(3),
             debug |-> Bool(TRUE),
             rateLimitPerMinute |-> Num(500)]),
      Value("production",
            [baseUrl |-> Str("https://api.example.com"),
             timeout |-> Num(15000),
             retries |-> Num(5),
             rateLimitPerMinute |-> Num(1000)]) }

BasicUserModelValues ==
    { Value("api",
            [id |-> Num(1), name |-> Str("John Doe"),
             email |-> Str("john@example.com")]),
      Value("database",
            [id |-> Num(1), name |-> Str("John Doe"),
             email |-> Str("john@example.com"),
             password |-> Str("hashed-password")]) }

UserModelValues ==
    { Value("database",
            [id |-> Num(1),
             email |-> Str("john.doe@example.com"),
             passwordHash |-> Str("$2b$10$..."),
             full_name |-> Str("John Doe"),
             createdAt |-> Num(1640995200),
             profile |->
                Str(Stringify(Obj(<< Prop("bio", Str("Software developer")),
                                     Prop("avatar", Str("avatar.jpg")) >>)))]),
      Value("api",
            [id |-> Num(1),
             email |-> Str("john.doe@example.com"),
             fullName |-> Str("John Doe"),
             createdAt |-> Str("2022-01-01T00:00:00Z"),
             profile |-> Obj(<< Prop("bio", Str("Software developer")),
                                Prop("avatar", Str("avatar.jpg")) >>)]),
      Value("graphql",
            [id |-> Num(1),
             email |-> Str("john.doe@example.com"),
             displayName |-> Str("John Doe"),
             createdAt |-> Str("2022-01-01T00:00:00Z"),
             profile |->
                Obj(<< Prop("biography", Str("Software developer")),
                       Prop("profilePicture", Str("avatar.jpg")) >>)]) }

ButtonValues ==
    { Value("mobile",
            [text |-> Str("Click me"), padding |-> Num(8),
             fontSize |-> Num(14)]),
      Value("desktop",
            [text |-> Str("Click me"), padding |-> Num(16),
             fontSize |-> Num(16)]) }

ProductValuesEmptyName(now) ==
    { Value("create",
            [name |-> Str("Gaming Laptop"),
             description |-> Str("High-performance gaming laptop"),
             price |-> Dec(1299, 99)]),
      Value("update",
            [id |-> Num(1),
             name |-> Str(""),
             description |-> Str("Updated high-performance gaming laptop"),
             price |-> Dec(1399, 99),
             updatedAt |-> Str(now)]),
      Value("response",
            [id |-> Num(1),
             name |-> Str("Gaming Laptop Pro"),
             description |-> Str("Updated high-performance gaming laptop"),
             price |-> Dec(1399, 99),
             createdAt |-> Str(now),
             updatedAt |-> Str(now)]) }

ProductValues(now) ==
    { Value("create",
            [name |-> Str("Gaming Laptop"),
             description |-> Str("High-performance gaming laptop"),
             price |-> Dec(1299, 99)]),
      Value("update",
            [id |-> Num(1),
             name |-> Str("Gaming Laptop Pro"),
             description |-> Str("Updated high-performance gaming laptop"),
             price |-> Dec(1399, 99),
             updatedAt |-> Str(now)]),
      Value("response",
            [id |-> Num(1),
             name |-> Str("Gaming Laptop Pro"),
             description |-> Str("Updated high-performance gaming laptop"),
             price |-> Dec(1399, 99),
             createdAt |-> Str(now),
             updatedAt |-> Str(now)]) }

TaskValues ==
    { Value("create",
            [title |-> Str("Implement user authentication"),
             description |-> Str("Add JWT-based authentication system"),
             initialStatus |-> Str("todo"),
             priority |-> Str("high"),
             assigneeId |-> Num(123)]),
      Value("update",
            [id |-> Num(1),
             title |-> Str("Implement user authentication (updated)"),
             description |->
                Str("Add JWT-based authentication with refresh tokens"),
             status |-> Str("in-progress"),
             priority |-> Str("medium"),
             assigneeId |-> Num(456)]),
      Value("response",
            [id |-> Num(1),
             title |-> Str("Implement user authentication"),
             description |-> Str("Add JWT-based authentication system"),
             status |-> Str("in-progress"),
             priority |-> Str("high"),
             assigneeId |-> Num(123),
             createdAt |-> Str("2024-01-01T10:00:00Z"),
             updatedAt |-> Str("2024-01-01T15:30:00Z")]),
      Value("list",
            [id |-> Num(1),
             status |-> Str("in-progress"),
             priority |-> Str("high"),
             summary |->
                Str("Implement user authentication - In Progress")]) }

UserValues(now) ==
    { Value("insert",
            [email |-> Str("alice@example.com"),
             username |-> Str("alice123"),
             passwordHash |-> Str("$2b$10$hashedpassword"),
             firstName |-> Str("Alice"),
             preferences |->
                Str(Stringify(Obj(<< Prop("theme", Str("dark")),
                                     Prop("notifications", Bool(TRUE)),
                                     Prop("language", Str("en")) >>))),
             createdAt |-> Str(now),
             updatedAt |-> Str(now)]),
      Value("jsonCreate",
            [email |-> Str("alice@example.com"),
             username |-> Str("alice123"),
             firstName |-> Str("Alice"),
             preferences |-> Obj(<< Prop("theme", Str("dark")),
                                    Prop("notifications", Bool(TRUE)),
                                    Prop("language", Str("en")) >>)]) }

ValuesOf(c, now) ==
    CASE c = EnvironmentConfig -> ApiConfigValues
      [] c = BasicConfig       -> BasicUserModelValues
      [] c = AdvancedConfig    -> UserModelValues
      [] c = ResponsiveConfig  -> ButtonValues
      [] c = ProductConfig     -> ProductValues(now)
      [] c = CrudConfig        -> TaskValues
      [] c = SqlConfig         -> UserValues(now)

(***************************************************************************)
(* The descriptors the examples write, as predicates on values.            *)
(***************************************************************************)
\* Schema.pattern(/^\S+@\S+$/): no white space, an @ neither first nor last.
Email(x) ==
    /\ IsString(x)
    /\ \A i \in 1..Len(x.s) : Char(x.s, i) # " "
    /\ \E i \in 2..(Len(x.s) - 1) : Char(x.s, i) = "@"

NonEmptyString(x) == IsString(x) /\ Len(x.s) >= 1

\* Schema.Number.pipe(Schema.positive())
PositiveNumber(x) == IsNumber(x) /\ (x.n > 0 \/ (x.n = 0 /\ x.frac > 0))

\* Schema.Literal("todo", "in-progress", "done")
Status(x) == IsString(x) /\ x.s \in {"todo", "in-progress", "done"}

\* Schema.Literal("low", "medium", "high")
Priority(x) == IsString(x) /\ x.s \in {"low", "medium", "high"}

\* Schema.Struct({ bio, avatar })
ApiProfile(x) ==
    /\ x.kind = "object"
    /\ \A k \in {"bio", "avatar"} : HasProp(x, k) /\ IsString(PropOf(x, k))

\* Schema.Struct({ biography, profilePicture })
GraphqlProfile(x) ==
    /\ x.kind = "object"
    /\ \A k \in {"biography", "profilePicture"} :
         HasProp(x, k) /\ IsString(PropOf(x, k))

\* Schema.Struct({ theme, notifications, language })
Preferences(x) ==
    /\ x.kind = "object"
    /\ HasProp(x, "theme")
    /\ IsString(PropOf(x, "theme"))
    /\ PropOf(x, "theme").s \in {"light", "dark"}
    /\ HasProp(x, "notifications")
    /\ IsBoolean(PropOf(x, "notifications"))
    /\ HasProp(x, "language")
    /\ IsString(PropOf(x, "language"))

\* Schema.Array(Schema.String)
ArrayOfString(x) ==
    x.kind = "array" /\ \A i \in DOMAIN x.items : IsString(x.items[i])

\* The descriptor an optional one wraps.
Required(d) ==
    CASE d = "OptionalString"   -> "String"
      [] d = "OptionalPriority" -> "Priority"
      [] d = "OptionalUserId"   -> "UserId"
      [] OTHER                  -> d

(***************************************************************************)
(* TypeDescriptor: validation, decoding of an external representation and  *)
(* encoding of a canonical value.  The descriptors of the examples do not  *)
(* transform; the two storage descriptors of the preset library do.        *)
(***************************************************************************)
JsonFromStringOf(inner) == "JsonFromString(" \o inner \o ")"

IsJsonFromString(d) ==
    Len(d) > 16 /\ SubSeq(d, 1, 15) = "JsonFromString("

InnerOf(d) == SubSeq(d, 16, Len(d) - 1)

\* validate, for a descriptor that does not transform.
AcceptsPlain(d, x) ==
    LET r == Required(d) IN
    CASE r = "String"            -> IsString(x)
      [] r = "Number"            -> IsNumber(x)
      [] r = "Boolean"           -> IsBoolean(x)
      [] r = "Email"             -> Email(x)
      [] r = "NonEmptyString"    -> NonEmptyString(x)
      [] r = "PositiveNumber"    -> PositiveNumber(x)
      [] r \in {"UserId", "ProductId", "TaskId"} -> IsNumber(x)
      [] r = "Status"            -> Status(x)
      [] r = "Priority"          -> Priority(x)
      [] r = "ApiProfile"        -> ApiProfile(x)
      [] r = "GraphqlProfile"    -> GraphqlProfile(x)
      [] r = "Preferences"       -> Preferences(x)
      [] r = "ArrayOfString"     -> ArrayOfString(x)
      [] OTHER                   -> FALSE

\* validate: the canonical values of a descriptor.
Accepts(d, x) ==
    IF d = "BooleanFromNumber" THEN IsBoolean(x)
    ELSE IF IsJsonFromString(d) THEN AcceptsPlain(InnerOf(d), x)
    ELSE AcceptsPlain(d, x)

Decoded(x) == [ok |-> TRUE, value |-> x]

Rejected == [ok |-> FALSE]

\* decode: external representation -> canonical value.
DecodeValue(d, x) ==
    IF d = "BooleanFromNumber"
    THEN (IF IsNumber(x) /\ x.frac = 0 /\ x.n \in {0, 1}
          THEN Decoded(Bool(x.n = 1)) ELSE Rejected)
    ELSE IF IsJsonFromString(d)
    THEN (IF ~IsString(x) THEN Rejected
          ELSE LET r == ParseStringArray(x.s) IN
               IF r.ok /\ Accepts(InnerOf(d), r.value)
               THEN Decoded(r.value) ELSE Rejected)
    ELSE IF Accepts(d, x) THEN Decoded(x) ELSE Rejected

\* encode: canonical value -> external representation.
EncodeValue(d, y) ==
    IF ~Accepts(d, y) THEN Rejected
    ELSE IF d = "BooleanFromNumber" THEN Decoded(Num(IF y.b THEN 1 ELSE 0))
    ELSE IF IsJsonFromString(d) THEN Decoded(Str(Stringify(y)))
    ELSE Decoded(y)

(***************************************************************************)
(* FieldSpec construction (the engine's Field and the sugar over it).      *)
(* A FieldSpec maps each variant the field exists in to the descriptor it  *)
(* has there and to its output key (NoKey: the declared name).             *)
(***************************************************************************)
Field(m) ==
    [v \in DOMAIN m |-> [descriptor |-> m[v], outputKey |-> NoKey]]

FieldOnly(vs, d) == Field([v \in vs |-> d])

FieldExcept(c, vs, d) == Field([v \in VariantsOf(c) \ vs |-> d])

fieldFromKey(m, d) ==
    [v \in DOMAIN m |-> [descriptor |-> d, outputKey |-> m[v]]]

\* A transform refines the descriptor it is given and may rename the key.
Transform(refine, key) == [refine |-> refine, key |-> key]

Refined(refine, d) ==
    CASE refine = "nonEmpty" /\ d = "String" -> "NonEmptyString"
      [] refine = "positive" /\ d = "Number" -> "PositiveNumber"
      [] OTHER                               -> d

\* fieldEvolve that gives the field an entry for every variant it is given
\* a transform for.
fieldEvolveAdding(f, t) ==
    [v \in DOMAIN f \cup DOMAIN t |->
        IF v \in DOMAIN f /\ v \in DOMAIN t
        THEN [descriptor |-> Refined(t[v].refine, f[v].descriptor),
              outputKey  |-> IF t[v].key = NoKey THEN f[v].outputKey
                             ELSE t[v].key]
        ELSE IF v \in DOMAIN f THEN f[v]
        ELSE [descriptor |-> Refined(t[v].refine, "String"),
              outputKey  |-> t[v].key]]

\* fieldEvolve: the transforms are applied to the variants the field is
\* present in; a transform for another variant has nothing to act on.
fieldEvolve(f, t) ==
    [v \in DOMAIN f |->
        IF v \in DOMAIN t
        THEN [descriptor |-> Refined(t[v].refine, f[v].descriptor),
              outputKey  |-> IF t[v].key = NoKey THEN f[v].outputKey
                             ELSE t[v].key]
        ELSE f[v]]

(***************************************************************************)
(* The SQL-pattern helpers of the example, written over Field.             *)
(***************************************************************************)
\* Generated that also accepts the value on insert.
GeneratedInsertable(schema) ==
    Field([select |-> schema, insert |-> schema, update |-> schema,
           json |-> schema])

\* Generated declared for every variant.
GeneratedEverywhere(schema) ==
    Field([select |-> schema, insert |-> schema, update |-> schema,
           json |-> schema, jsonCreate |-> schema, jsonUpdate |-> schema])

\* Generated that is declared for no variant.
GeneratedNowhere(schema) == Field([v \in {} |-> schema])

Generated(schema) ==
    Field([select |-> schema, update |-> schema, json |-> schema])

\* Sensitive that leaks into the JSON variant.
SensitiveInJson(schema) ==
    Field([select |-> schema, insert |-> schema, update |-> schema,
           json |-> schema])

Sensitive(schema) ==
    Field([select |-> schema, insert |-> schema, update |-> schema])

\* DateTimeInsert that is also part of the update variant.
DateTimeInsertOnUpdate ==
    Field([select |-> "String", insert |-> "String", update |-> "String",
           json |-> "String"])

DateTimeInsert ==
    Field([select |-> "String", insert |-> "String", json |-> "String"])

\* DateTimeUpdate that the update variant does not take from the caller.
DateTimeUpdateNoUpdate ==
    Field([select |-> "String", insert |-> "String", json |-> "String"])

\* DateTimeUpdate that is left out of the insert variant.
DateTimeUpdateNoInsert ==
    Field([select |-> "String", update |-> "String", json |-> "String"])

DateTimeUpdate ==
    Field([select |-> "String", insert |-> "String", update |-> "String",
           json |-> "String"])

Presets == {"Generated", "Sensitive", "DateTimeInsert", "DateTimeUpdate"}

(***************************************************************************)
(* The presets of the Model layer that the example does not simulate, from *)
(* the preset table of the design document.                                *)
(***************************************************************************)
GeneratedByApp(schema) ==
    Field([select |-> schema, insert |-> schema, update |-> schema,
           json |-> schema, jsonCreate |-> schema, jsonUpdate |-> schema])

JsonFromString(inner) ==
    Field([select |-> JsonFromStringOf(inner),
           insert |-> JsonFromStringOf(inner),
           update |-> JsonFromStringOf(inner),
           json |-> inner, jsonCreate |-> inner, jsonUpdate |-> inner])

BooleanFromNumber ==
    Field([select |-> "BooleanFromNumber", insert |-> "BooleanFromNumber",
           update |-> "BooleanFromNumber",
           json |-> "Boolean", jsonCreate |-> "Boolean",
           jsonUpdate |-> "Boolean"])

(***************************************************************************)
(* Fields the repository's Model classes declare with these presets, and   *)
(* what its calls pass for them.                                           *)
(***************************************************************************)
\* Product.tags declared as a plain array.
ProductTagsAsArray == Plain("tags", "ArrayOfString")

ProductTags == DeclPreset("tags", "JsonFromString", "ArrayOfString")

\* Task.completed declared as a plain boolean.
TaskCompletedAsBoolean == Plain("completed", "Boolean")

TaskCompleted == DeclPreset("completed", "BooleanFromNumber", NoDescriptor)

\* Order.orderNumber declared as generated by the database.
OrderNumberGenerated == DeclPreset("orderNumber", "Generated", "String")

OrderNumber == DeclPreset("orderNumber", "GeneratedByApp", "String")

ModelFields == {ProductTags, TaskCompleted, OrderNumber}

CreateProductTags ==
    Arr(<< Str("audio"), Str("wireless"), Str("electronics") >>)

CreateTaskCompleted == Bool(FALSE)

CreateOrderNumber(now) == Str("ORD-" \o now)

ModelPayload(now) ==
    [tags |-> CreateProductTags,
     completed |-> CreateTaskCompleted,
     orderNumber |-> CreateOrderNumber(now)]

(***************************************************************************)
(* Evaluation of a written field to its FieldSpec.  A plain descriptor     *)
(* stands for the field in every declared variant.                         *)
(***************************************************************************)
RECURSIVE Eval(_, _)
Eval(c, e) ==
    CASE e.helper = "Schema"         -> Field([v \in VariantsOf(c) |-> e.d])
      [] e.helper = "Field"          -> Field(e.m)
      [] e.helper = "FieldOnly"      -> FieldOnly(e.vs, e.d)
      [] e.helper = "FieldExcept"    -> FieldExcept(c, e.vs, e.d)
      [] e.helper = "fieldFromKey"   -> fieldFromKey(e.m, e.d)
      [] e.helper = "Generated"      -> Generated(e.d)
      [] e.helper = "Sensitive"      -> Sensitive(e.d)
      [] e.helper = "DateTimeInsert" -> DateTimeInsert
      [] e.helper = "DateTimeUpdate" -> DateTimeUpdate
      [] e.helper = "GeneratedByApp" -> GeneratedByApp(e.d)
      [] e.helper = "JsonFromString" -> JsonFromString(e.d)
      [] e.helper = "BooleanFromNumber" -> BooleanFromNumber
      [] e.helper = "fieldEvolve"    -> fieldEvolve(Eval(c, e.base), e.t)

\* The definition error a helper call raises, "none" when it succeeds.
RECURSIVE HelperError(_, _)
HelperError(c, e) ==
    IF e.helper = "fieldEvolve" THEN HelperError(c, e.base)
    ELSE IF e.helper = "FieldExcept" /\ ~(e.vs \subseteq VariantsOf(c))
    THEN "UndeclaredVariant"
    ELSE IF e.helper = "FieldExcept" /\ e.vs = VariantsOf(c)
    THEN "UnreachableField"
    ELSE IF ~(DOMAIN Eval(c, e) \subseteq VariantsOf(c))
    THEN "UndeclaredVariant"
    ELSE "none"

(***************************************************************************)
(* StructSpec assembly.                                                    *)
(***************************************************************************)
Evaluated(c, fields) ==
    [i \in 1..Len(fields) |->
        [name |-> fields[i].name, spec |-> Eval(c, fields[i])]]

OutputKey(f, v) ==
    IF f.spec[v].outputKey = NoKey THEN f.name ELSE f.spec[v].outputKey

\* Two fields of the same variant under one output key.
Collides(fs, v) ==
    \E i, j \in 1..Len(fs) :
        /\ i < j
        /\ v \in DOMAIN fs[i].spec
        /\ v \in DOMAIN fs[j].spec
        /\ OutputKey(fs[i], v) = OutputKey(fs[j], v)

StructError(c, fields) ==
    LET fs == Evaluated(c, fields) IN
    IF \E i \in 1..Len(fields) : HelperError(c, fields[i]) # "none"
    THEN LET i == CHOOSE k \in 1..Len(fields) :
                    /\ HelperError(c, fields[k]) # "none"
                    /\ \A h \in 1..(k - 1) : HelperError(c, fields[h]) = "none"
         IN HelperError(c, fields[i])
    ELSE IF \E v \in VariantsOf(c) : Collides(fs, v)
    THEN "KeyCollision"
    ELSE IF \A i \in 1..Len(fs) : c.defaultVariant \notin DOMAIN fs[i].spec
    THEN "EmptyDefault"
    ELSE "none"

Struct(c, fields) ==
    [variants |-> c.variants,
     defaultVariant |-> c.defaultVariant,
     fields |-> Evaluated(c, fields)]

(***************************************************************************)
(* Extraction of the schema of one variant.                                *)
(***************************************************************************)
RECURSIVE ExtractFrom(_, _, _)
ExtractFrom(fs, v, i) ==
    IF i > Len(fs)
    THEN <<>>
    ELSE (IF v \in DOMAIN fs[i].spec
          THEN << [key |-> OutputKey(fs[i], v),
                   descriptor |-> fs[i].spec[v].descriptor] >>
          ELSE <<>>) \o ExtractFrom(fs, v, i + 1)

\* extract that derives a schema for any variant name.
extractLenient(S, v) == [fields |-> ExtractFrom(S.fields, v, 1)]

\* A call with a variant the StructSpec does not declare fails.
extract(S, v) ==
    IF v \in Range(S.variants)
    THEN [fields |-> ExtractFrom(S.fields, v, 1)]
    ELSE [error |-> "ProgrammingError"]

Keys(schema) == {schema.fields[i].key : i \in DOMAIN schema.fields}

(***************************************************************************)
(* Class synthesis: the class has the default variant's fields and one     *)
(* accessor per other declared variant.                                    *)
(***************************************************************************)
Class(name, c, fields) ==
    LET S == Struct(c, fields) IN
    [name |-> name,
     fields |-> extract(S, S.defaultVariant).fields,
     accessors |-> [v \in Range(S.variants) \ {S.defaultVariant} |->
                        extract(S, v)]]

(***************************************************************************)
(* The codecs of a variant: decode validates and transforms an external    *)
(* value of the variant's shape into the canonical value, field by field,  *)
(* and renames output keys back to field names; encode is the inverse.     *)
(* Either fails as a whole, with the paths of the offending fields.        *)
(***************************************************************************)
Success(x) == [ok |-> TRUE, value |-> x, errors |-> {}]

Failure(paths) == [ok |-> FALSE, errors |-> paths]

\* The fields of S that exist in variant v.
PresentIn(S, v) == {i \in DOMAIN S.fields : v \in DOMAIN S.fields[i].spec}

DescriptorIn(S, v, i) == S.fields[i].spec[v].descriptor

\* The object o has a value under key k.
Supplies(o, k) == k \in DOMAIN o /\ o[k] # Undefined

\* The field of S that variant v shows under output key k / that is named n.
FieldUnderKey(S, v, k) ==
    CHOOSE i \in PresentIn(S, v) : OutputKey(S.fields[i], v) = k

FieldNamed(S, v, n) == CHOOSE i \in PresentIn(S, v) : S.fields[i].name = n

\* Field i rejects what the external value ext holds for it.
RejectsExternal(S, v, i, ext) ==
    LET k == OutputKey(S.fields[i], v)
        d == DescriptorIn(S, v, i)
    IN IF Supplies(ext, k) THEN ~DecodeValue(d, ext[k]).ok
       ELSE d \notin OptionalDescriptors

decode(S, v, ext) ==
    LET P == PresentIn(S, v)
        bad == {i \in P : RejectsExternal(S, v, i, ext)}
        given == {i \in P : Supplies(ext, OutputKey(S.fields[i], v))}
    IN IF bad # {}
       THEN Failure({OutputKey(S.fields[i], v) : i \in bad})
       ELSE Success([n \in {S.fields[i].name : i \in given} |->
                LET i == FieldNamed(S, v, n) IN
                DecodeValue(DescriptorIn(S, v, i),
                            ext[OutputKey(S.fields[i], v)]).value])

\* Field i rejects what the canonical value x holds for it.
RejectsCanonical(S, v, i, x) ==
    LET d == DescriptorIn(S, v, i) IN
    IF Supplies(x, S.fields[i].name)
    THEN ~EncodeValue(d, x[S.fields[i].name]).ok
    ELSE d \notin OptionalDescriptors

encode(S, v, x) ==
    LET P == PresentIn(S, v)
        bad == {i \in P : RejectsCanonical(S, v, i, x)}
        given == {i \in P : Supplies(x, S.fields[i].name)}
    IN IF bad # {}
       THEN Failure({S.fields[i].name : i \in bad})
       ELSE Success([k \in {OutputKey(S.fields[i], v) : i \in given} |->
                LET i == FieldUnderKey(S, v, k) IN
                EncodeValue(DescriptorIn(S, v, i), x[S.fields[i].name]).value])

(***************************************************************************)
(* The values codecs are applied to.                                       *)
(***************************************************************************)
SampleIndex == {1, 2}

\* Two canonical values of each descriptor.
SampleOf(d, k) ==
    LET r == IF IsJsonFromString(d) THEN InnerOf(d) ELSE Required(d) IN
    CASE r = "String" -> IF k = 1 THEN Str("x") ELSE Str("2020-01-01")
      [] r \in {"Number", "UserId", "ProductId", "TaskId"} -> Num(k)
      [] r \in {"Boolean", "BooleanFromNumber"} -> Bool(k = 1)
      [] r = "Email" ->
            IF k = 1 THEN Str("a@b") ELSE Str("alice@example.com")
      [] r = "NonEmptyString" -> IF k = 1 THEN Str("x") ELSE Str("Alice")
      [] r = "PositiveNumber" -> IF k = 1 THEN Num(1) ELSE Dec(0, 50)
      [] r = "Status" -> IF k = 1 THEN Str("todo") ELSE Str("done")
      [] r = "Priority" -> IF k = 1 THEN Str("low") ELSE Str("high")
      [] r = "ApiProfile" ->
            Obj(<< Prop("bio", Str("b")), Prop("avatar", Str("a.jpg")) >>)
      [] r = "GraphqlProfile" ->
            Obj(<< Prop("biography", Str("b")),
                   Prop("profilePicture", Str("a.jpg")) >>)
      [] r = "Preferences" ->
            Obj(<< Prop("theme", IF k = 1 THEN Str("light") ELSE Str("dark")),
                   Prop("notifications", Bool(k = 1)),
                   Prop("language", Str("en")) >>)
      [] r = "ArrayOfString" ->
            IF k = 1 THEN Arr(<< Str("a"), Str("b") >>) ELSE Arr(<<>>)

\* A canonical value of variant v: every field holds its k-th sample; the
\* second one leaves the optional fields out.
SampleEntity(S, v, k) ==
    LET held == {i \in PresentIn(S, v) :
                    k = 1 \/ DescriptorIn(S, v, i) \notin OptionalDescriptors}
    IN [n \in {S.fields[i].name : i \in held} |->
            SampleOf(DescriptorIn(S, v, FieldNamed(S, v, n)), k)]

\* What a caller may put under a key instead of what belongs there.
OtherValues == {Str("2020-01-01"), Num(1), Undefined}

With(o, k, w) == [x \in DOMAIN o \cup {k} |-> IF x = k THEN w ELSE o[x]]

\* The external values handed to decode for variant v: the example payloads
\* of the variant and the encoded sample values, each as it is and with one
\* key changed or added, the key of a field of v or the name of any field
\* of the class.
ExternalValues(c, S, v, now) ==
    LET written == {p.value : p \in {q \in ValuesOf(c, now) : q.variant = v}}
        encoded == {encode(S, v, SampleEntity(S, v, k)).value :
                        k \in SampleIndex}
        base == written \cup encoded
        keys == Keys(extract(S, v))
                    \cup {S.fields[i].name : i \in DOMAIN S.fields}
    IN base \cup {With(b, k, w) : b \in base, k \in keys, w \in OtherValues}

(***************************************************************************)
(* The inputs a caller's own fields are drawn from.                        *)
(***************************************************************************)
PoolDescriptors == {"String", "Number"}

\* A variant name no configuration declares.
Undeclared == "undeclared"

\* Output keys a caller renames to: a fresh key and the name of a field
\* most mappings already declare.
OutKeys == {"alias", "id"}

\* Variant lists: no variant, one declared variant, every declared variant,
\* or an undeclared one.
VariantLists(c) ==
    {{}} \cup {{v} : v \in VariantsOf(c)} \cup {VariantsOf(c)}
        \cup {{Undeclared}}

OtherDescriptor(d) == IF d = "String" THEN "Number" ELSE "String"

OtherKey(k) == IF k = "alias" THEN "id" ELSE "alias"

\* Field maps over a variant list: the default variant gets one descriptor,
\* every other listed variant the other one.
FieldMaps(c) ==
    {[v \in vs |-> IF v = c.defaultVariant THEN d ELSE OtherDescriptor(d)] :
        vs \in VariantLists(c), d \in PoolDescriptors}

\* Key maps over a list of declared variants: the default variant is renamed
\* to one key, every other listed variant to the other one.
KeyMaps(c) ==
    {[v \in vs |-> IF v = c.defaultVariant THEN k ELSE OtherKey(k)] :
        vs \in VariantLists(c) \ {{Undeclared}}, k \in OutKeys}

\* Transform maps over a variant list: the default variant's descriptor is
\* refined, every other listed variant is renamed.
Transforms(c) ==
    {[v \in vs |-> IF v = c.defaultVariant THEN Transform(r, NoKey)
                   ELSE Transform("none", "alias")] :
        vs \in VariantLists(c), r \in {"nonEmpty", "positive"}}

ExtraName(i) == "extra" \o ToString(i)

(***************************************************************************)
(* Lazily memoized extraction: a caller looks the pair (StructSpec,        *)
(* variant) up, computes the schema when it finds no entry, and publishes  *)
(* it unless an entry has been published meanwhile.  One StructSpec is     *)
(* built per behaviour, so the variant stands for the pair.                *)
(***************************************************************************)
Callers == {1, 2}

NoVariant == "none"

Idle == [pc |-> "idle", variant |-> NoVariant, result |-> NoValue]

\* The variants callers ask for: the first and the last declared variant
\* and one that is not declared.
CalledVariants(c) == {c.variants[1], c.variants[Len(c.variants)], Undeclared}

\* A memo that keeps one entry for all variants.
CacheKeyShared(v) == "schema"

CacheKey(v) == v

\* A computation that publishes the schema before its fields are derived.
ComputedEmpty(S, v) == [fields |-> <<>>]

Computed(S, v) == extract(S, v)

(***************************************************************************)
(* The state machine: a program declares a field mapping under one         *)
(* configuration, builds a Struct or a Class from it and extracts          *)
(* variants.                                                               *)
(***************************************************************************)
Init ==
    /\ cfg \in Configs
    /\ decl = <<>>
    /\ extras = 0
    /\ phase = "declaring"
    /\ error = "none"
    /\ struct = NoValue
    /\ extracted = NoValue
    /\ cls = NoValue
    /\ codec = NoValue
    /\ cache = NoMap
    /\ callers = [p \in Callers |-> Idle]
    /\ returned = {}

\* The program writes the example mapping of its configuration.
DeclareExample ==
    /\ phase = "declaring"
    /\ decl = <<>>
    /\ decl' = ExampleOf(cfg)
    /\ UNCHANGED <<cfg, extras, phase, error, struct, extracted, cls, codec>>
    /\ UNCHANGED memo

Declare(e) ==
    /\ phase = "declaring"
    /\ extras < MaxExtra
    /\ decl' = Append(decl, e)
    /\ extras' = extras + 1
    /\ UNCHANGED <<cfg, phase, error, struct, extracted, cls, codec>>
    /\ UNCHANGED memo

DeclarePlain ==
    \E d \in PoolDescriptors : Declare(Plain(ExtraName(extras + 1), d))

DeclareField ==
    \E m \in FieldMaps(cfg) : Declare(DeclField(ExtraName(extras + 1), m))

DeclareFieldOnly ==
    \E vs \in VariantLists(cfg), d \in PoolDescriptors :
        Declare(DeclFieldOnly(ExtraName(extras + 1), vs, d))

DeclareFieldExcept ==
    \E vs \in VariantLists(cfg), d \in PoolDescriptors :
        Declare(DeclFieldExcept(ExtraName(extras + 1), vs, d))

DeclareFromKey ==
    \E m \in KeyMaps(cfg) :
        Declare(DeclFromKey(ExtraName(extras + 1), m, "String"))

\* The SQL-pattern helpers exist under the configuration they are written for.
DeclarePreset ==
    /\ cfg = SqlConfig
    /\ \E p \in Presets, d \in PoolDescriptors :
        /\ p \in {"DateTimeInsert", "DateTimeUpdate"} => d = "String"
        /\ Declare(DeclPreset(ExtraName(extras + 1), p,
                              IF p \in {"Generated", "Sensitive"}
                              THEN d ELSE NoDescriptor))

\* Struct(fieldMapping): a definition error aborts the construction.
\* Struct assembly that reports a definition error and builds all the same.
ConstructStructUnchecked ==
    /\ phase = "declaring"
    /\ phase' = "struct"
    /\ struct' = Struct(cfg, decl)
    /\ error' = StructError(cfg, decl)
    /\ UNCHANGED <<cfg, decl, extras, extracted, cls, codec>>
    /\ UNCHANGED memo

ConstructStruct ==
    /\ phase = "declaring"
    /\ IF StructError(cfg, decl) = "none"
       THEN /\ phase' = "struct"
            /\ struct' = Struct(cfg, decl)
            /\ error' = error
       ELSE /\ phase' = "failed"
            /\ error' = StructError(cfg, decl)
            /\ struct' = struct
    /\ UNCHANGED <<cfg, decl, extras, extracted, cls, codec>>
    /\ UNCHANGED memo

\* Class(name)(fieldMapping): Struct assembly, then the class.
ConstructClass ==
    /\ phase = "declaring"
    /\ IF StructError(cfg, decl) = "none"
       THEN /\ phase' = "class"
            /\ struct' = Struct(cfg, decl)
            /\ cls' = Class("Model", cfg, decl)
            /\ error' = error
       ELSE /\ phase' = "failed"
            /\ error' = StructError(cfg, decl)
            /\ UNCHANGED <<struct, cls>>
    /\ UNCHANGED <<cfg, decl, extras, extracted, codec>>
    /\ UNCHANGED memo

\* extract(struct, v)
Extract ==
    /\ phase = "struct"
    /\ \E v \in VariantsOf(cfg) :
        extracted' = [variant |-> v, schema |-> extract(struct, v)]
    /\ UNCHANGED <<cfg, decl, extras, phase, error, struct, cls, codec>>
    /\ UNCHANGED memo

Next ==
    \/ DeclareExample
    \/ DeclarePlain
    \/ DeclareField
    \/ DeclareFieldOnly
    \/ DeclareFieldExcept
    \/ DeclareFromKey
    \/ DeclarePreset
    \/ ConstructStruct
    \/ ConstructClass
    \/ Extract

Spec == Init /\ [][Next]_vars

(***************************************************************************)
(* A program that builds a class and runs its codecs: it writes the        *)
(* example mapping, possibly with fields built from the Model presets,     *)
(* builds the class, then encodes canonical values and decodes external    *)
(* ones.                                                                   *)
(***************************************************************************)
DeclareModelField ==
    /\ cfg = SqlConfig
    /\ \E e \in ModelFields : Declare(e)

\* The canonical values handed to encode for variant v: the sample values,
\* each as it is, with one field left undefined, and with one field holding
\* what the repository's calls pass for it.
CanonicalValues(S, v, now) ==
    LET base == {SampleEntity(S, v, k) : k \in SampleIndex}
        names == {S.fields[i].name : i \in PresentIn(S, v)}
    IN base
        \cup {With(x, n, Undefined) : x \in base, n \in names}
        \cup {With(x, n, ModelPayload(now)[n]) :
                x \in base, n \in names \cap DOMAIN ModelPayload(now)}

\* Schema.encode of a variant's schema.  The codecs keep no state between
\* calls, so a behaviour follows one call and what is done with its result.
Encode ==
    /\ phase = "class"
    /\ codec = NoValue
    /\ \E v \in VariantsOf(cfg), now \in Clock :
        \E x \in CanonicalValues(struct, v, now) :
            codec' = [op |-> "encode", variant |-> v, now |-> now,
                      input |-> x, result |-> encode(struct, v, x),
                      origin |-> NoValue]
    /\ UNCHANGED <<cfg, decl, extras, phase, error, struct, extracted, cls>>
    /\ UNCHANGED memo

\* Schema.decodeUnknown of a variant's schema
Decode ==
    /\ phase = "class"
    /\ codec = NoValue
    /\ \E v \in VariantsOf(cfg), now \in Clock :
        \E ext \in ExternalValues(cfg, struct, v, now) :
            codec' = [op |-> "decode", variant |-> v, now |-> now,
                      input |-> ext, result |-> decode(struct, v, ext),
                      origin |-> NoValue]
    /\ UNCHANGED <<cfg, decl, extras, phase, error, struct, extracted, cls>>
    /\ UNCHANGED memo

\* The encoded value is decoded again by the same variant.
DecodeEncoded ==
    /\ phase = "class"
    /\ codec # NoValue
    /\ codec.op = "encode"
    /\ codec.result.ok
    /\ codec' = [op |-> "decode", variant |-> codec.variant,
                 now |-> codec.now, input |-> codec.result.value,
                 result |-> decode(struct, codec.variant, codec.result.value),
                 origin |-> codec.input]
    /\ UNCHANGED <<cfg, decl, extras, phase, error, struct, extracted, cls>>
    /\ UNCHANGED memo

ValueFor(c, now, v) ==
    (CHOOSE p \in ValuesOf(c, now) : p.variant = v).value

\* The try block that validates the three Product payloads in turn: the
\* first decode that throws ends it in the catch clause.
ValidateProducts ==
    /\ phase = "class"
    /\ codec = NoValue
    /\ cfg = ProductConfig
    /\ \E now \in Clock :
        LET createProduct ==
                decode(struct, "create", ValueFor(cfg, now, "create"))
            updateProduct ==
                decode(struct, "update", ValueFor(cfg, now, "update"))
            responseProduct ==
                decode(struct, "response", ValueFor(cfg, now, "response"))
        IN codec' =
            IF ~createProduct.ok
            THEN [op |-> "validate", now |-> now, logged |-> <<>>,
                  caught |-> createProduct]
            ELSE IF ~updateProduct.ok
            THEN [op |-> "validate", now |-> now,
                  logged |-> << createProduct.value >>,
                  caught |-> updateProduct]
            ELSE IF ~responseProduct.ok
            THEN [op |-> "validate", now |-> now,
                  logged |-> << createProduct.value, updateProduct.value >>,
                  caught |-> responseProduct]
            ELSE [op |-> "validate", now |-> now,
                  logged |-> << createProduct.value, updateProduct.value,
                                responseProduct.value >>,
                  caught |-> NoValue]
    /\ UNCHANGED <<cfg, decl, extras, phase, error, struct, extracted, cls>>
    /\ UNCHANGED memo

(***************************************************************************)
(* A program that decorates a field it has written: the field written last *)
(* is evolved and the result declared under a name of its own.             *)
(***************************************************************************)
DeclareEvolved ==
    /\ decl # <<>>
    /\ \E t \in Transforms(cfg) :
        Declare(DeclEvolve(ExtraName(extras + 1), decl[Len(decl)], t))

EvolveNext ==
    \/ DeclareExample
    \/ DeclareField
    \/ DeclareEvolved
    \/ ConstructStruct
    \/ ConstructClass
    \/ Extract

EvolveSpec == Init /\ [][EvolveNext]_vars

\* A field renamed under the default variant only, to a fresh key or to a
\* key the mapping may already use.
DeclareRenamed ==
    \E m \in {x \in KeyMaps(cfg) : DOMAIN x = {cfg.defaultVariant}} :
        Declare(DeclFromKey(ExtraName(extras + 1), m, "String"))

\* A Field whose map names a variant the configuration does not declare.
DeclareUndeclared ==
    \E m \in {x \in FieldMaps(cfg) : DOMAIN x = {Undeclared}} :
        Declare(DeclField(ExtraName(extras + 1), m))

(***************************************************************************)
(* Callers of the memoized extractor, each step of a call being atomic.    *)
(***************************************************************************)
Call(p) ==
    /\ phase = "struct"
    /\ callers[p].pc = "idle"
    /\ \E v \in CalledVariants(cfg) :
        callers' = [callers EXCEPT ![p] =
            IF v \in VariantsOf(cfg)
            THEN [pc |-> "lookup", variant |-> v, result |-> NoValue]
            ELSE [pc |-> "failed", variant |-> v,
                  result |-> extract(struct, v)]]
    /\ UNCHANGED <<cfg, decl, extras, phase, error, struct, extracted, cls,
                   codec, cache, returned>>

Lookup(p) ==
    /\ callers[p].pc = "lookup"
    /\ callers' = [callers EXCEPT ![p] =
            IF CacheKey(callers[p].variant) \in DOMAIN cache
            THEN [pc |-> "done", variant |-> callers[p].variant,
                  result |-> cache[CacheKey(callers[p].variant)]]
            ELSE [callers[p] EXCEPT !.pc = "compute"]]
    /\ UNCHANGED <<cfg, decl, extras, phase, error, struct, extracted, cls,
                   codec, cache, returned>>

Compute(p) ==
    /\ callers[p].pc = "compute"
    /\ callers' = [callers EXCEPT ![p] =
            [pc |-> "publish", variant |-> callers[p].variant,
             result |-> Computed(struct, callers[p].variant)]]
    /\ UNCHANGED <<cfg, decl, extras, phase, error, struct, extracted, cls,
                   codec, cache, returned>>

\* Publish that keeps the schema inside the StructSpec.
PublishInPlace(p) ==
    /\ callers[p].pc = "publish"
    /\ struct' = [variants |-> struct.variants,
                  defaultVariant |-> struct.defaultVariant,
                  fields |-> struct.fields,
                  schema |-> callers[p].result]
    /\ callers' = [callers EXCEPT ![p].pc = "done"]
    /\ UNCHANGED <<cfg, decl, extras, phase, error, extracted, cls, codec,
                   cache, returned>>

\* Publish once: an entry found at this point is kept and returned.
Publish(p) ==
    /\ callers[p].pc = "publish"
    /\ LET k == CacheKey(callers[p].variant)
           published == IF k \in DOMAIN cache THEN cache
                        ELSE [x \in DOMAIN cache \cup {k} |->
                                IF x = k THEN callers[p].result ELSE cache[x]]
       IN /\ cache' = published
          /\ callers' = [callers EXCEPT ![p] =
                [pc |-> "done", variant |-> callers[p].variant,
                 result |-> published[k]]]
    /\ UNCHANGED <<cfg, decl, extras, phase, error, struct, extracted, cls,
                   codec, returned>>

\* The call returns its schema, or its failure, to the caller.
Return(p) ==
    /\ callers[p].pc \in {"done", "failed"}
    /\ returned' = returned \cup
            {[variant |-> callers[p].variant, result |-> callers[p].result]}
    /\ callers' = [callers EXCEPT ![p] = Idle]
    /\ UNCHANGED <<cfg, decl, extras, phase, error, struct, extracted, cls,
                   codec, cache>>

EngineNext ==
    \/ DeclareExample
    \/ DeclareRenamed
    \/ DeclareUndeclared
    \/ ConstructStruct
    \/ ConstructClass
    \/ Extract
    \/ \E p \in Callers : Call(p)
    \/ \E p \in Callers : Lookup(p)
    \/ \E p \in Callers : Compute(p)
    \/ \E p \in Callers : Publish(p)
    \/ \E p \in Callers : Return(p)
    \/ Encode
    \/ Decode
    \/ DecodeEncoded
    \/ ValidateProducts

EngineSpec == Init /\ [][EngineNext]_vars

CodecNext ==
    \/ DeclareExample
    \/ DeclareModelField
    \/ ConstructClass
    \/ Encode
    \/ Decode
    \/ DecodeEncoded
    \/ ValidateProducts

CodecSpec == Init /\ [][CodecNext]_vars

(***************************************************************************)
(* What the properties below speak about.                                  *)
(***************************************************************************)
Constructed == phase \in {"struct", "class"}

\* The schema a class holds for variant v.
ClassSchema(v) ==
    IF v = cfg.defaultVariant THEN [fields |-> cls.fields]
    ELSE cls.accessors[v]

\* The schemas the program has derived so far, each with its variant.
ObservedSchemas ==
    IF phase = "struct" /\ extracted # NoValue
    THEN {extracted}
    ELSE IF phase = "class"
    THEN {[variant |-> v, schema |-> ClassSchema(v)] : v \in VariantsOf(cfg)}
    ELSE {}

\* The written field of name n is in schema sch with descriptor d.
Carries(sch, n, d) ==
    \E j \in DOMAIN sch.fields :
        sch.fields[j] = [key |-> n, descriptor |-> d]

\* The keys the written field i may appear under: its name and, for
\* fieldFromKey, the keys of its map.
KeysOfField(i) ==
    {decl[i].name} \cup
        (IF decl[i].helper = "fieldFromKey" THEN Range(decl[i].m) ELSE {})

\* Field j of the constructed struct is in variant v under key k.
YieldsKey(j, v, k) ==
    /\ v \in DOMAIN struct.fields[j].spec
    /\ OutputKey(struct.fields[j], v) = k

\* The written field i has no entry under key k in the observed schema o:
\* an entry under k, if any, is another field's.
NotUnder(o, i, k) ==
    k \in Keys(o.schema) =>
        \E j \in DOMAIN struct.fields \ {i} : YieldsKey(j, o.variant, k)

\* The written field i has no entry in the observed schema o.
Absent(o, i) == \A k \in KeysOfField(i) : NotUnder(o, i, k)

\* sch is the projection of S on v: the fields with an entry for v and no
\* others, in declaration order, under their output key for v, with the
\* descriptor declared for v.
IsProjection(S, v, sch) ==
    LET P == {i \in DOMAIN S.fields : v \in DOMAIN S.fields[i].spec}
        rank(i) == Cardinality({j \in P : j <= i})
    IN /\ Len(sch.fields) = Cardinality(P)
       /\ \A i \in P :
            LET e == S.fields[i].spec[v] IN
            /\ sch.fields[rank(i)].key =
                 (IF e.outputKey = NoKey THEN S.fields[i].name
                  ELSE e.outputKey)
            /\ sch.fields[rank(i)].descriptor = e.descriptor

\* A payload fits a schema: it has no key the schema lacks, and lacks only
\* keys of optional descriptors.
Fits(p, sch) ==
    /\ p.keys \subseteq Keys(sch)
    /\ \A j \in DOMAIN sch.fields :
         sch.fields[j].key \notin p.keys
            => sch.fields[j].descriptor \in OptionalDescriptors

\* The example mapping of the configuration, declared as written.
ExampleDeclared == Constructed /\ decl = ExampleOf(cfg)

(***************************************************************************)
(* C1: for every constructed StructSpec and declared variant, the          *)
(* extracted schema holds exactly the fields with an entry for the         *)
(* variant, in declaration order, each under its output key and with the   *)
(* descriptor declared for that variant; the example payloads of a variant *)
(* fit the schema extracted for it.                                        *)
(***************************************************************************)
C1_ExtractIsProjection ==
    \A o \in ObservedSchemas :
        phase = "struct" =>
        /\ IsProjection(struct, o.variant, o.schema)
        /\ ExampleDeclared =>
             \A p \in PayloadsOf(cfg) :
                p.variant = o.variant => Fits(p, o.schema)

\* An extraction that leaves a field out, renames one and keeps two or more.
C1_Witness ==
    /\ phase = "struct"
    /\ extracted # NoValue
    /\ Len(extracted.schema.fields) >= 2
    /\ \E i \in DOMAIN struct.fields :
         extracted.variant \notin DOMAIN struct.fields[i].spec
    /\ \E i \in DOMAIN struct.fields :
         /\ extracted.variant \in DOMAIN struct.fields[i].spec
         /\ struct.fields[i].spec[extracted.variant].outputKey
              \notin {NoKey, struct.fields[i].name}
    /\ \E i, j \in DOMAIN struct.fields :
         /\ extracted.variant \in DOMAIN struct.fields[i].spec
         /\ extracted.variant \in DOMAIN struct.fields[j].spec
         /\ struct.fields[i].spec[extracted.variant].descriptor
              # struct.fields[j].spec[extracted.variant].descriptor
    /\ \E p \in PayloadsOf(cfg) : p.variant = extracted.variant

C3_SensitivePresence ==
    \A o \in ObservedSchemas :
        \A i \in DOMAIN decl :
            decl[i].helper = "Sensitive" =>
                /\ o.variant \in {"select", "insert", "update"} =>
                     Carries(o.schema, decl[i].name, decl[i].d)
                /\ o.variant \in {"json", "jsonCreate", "jsonUpdate"} =>
                     Absent(o, i)

C3_Witness ==
    /\ phase = "class"
    /\ \E i \in DOMAIN decl : decl[i].helper = "Sensitive"
    /\ {"json", "jsonCreate", "jsonUpdate"} \subseteq DOMAIN cls.accessors

AutoField(i) ==
    \/ decl[i].name = "id" /\ decl[i].helper = "Generated"
    \/ decl[i].name = "createdAt" /\ decl[i].helper = "DateTimeInsert"
    \/ decl[i].name = "updatedAt" /\ decl[i].helper = "DateTimeUpdate"

DeclaresAutoFields ==
    \A n \in {"id", "createdAt", "updatedAt"} :
        \E i \in DOMAIN decl : decl[i].name = n /\ AutoField(i)

C7_FieldOnlyPresence ==
    \A i \in DOMAIN decl :
        (Constructed /\ decl[i].helper = "FieldOnly") =>
            /\ struct.fields[i].spec = Field([v \in decl[i].vs |-> decl[i].d])
            /\ \A o \in ObservedSchemas :
                /\ IF o.variant \in decl[i].vs
                   THEN Carries(o.schema, decl[i].name, decl[i].d)
                   ELSE Absent(o, i)
                /\ ExampleDeclared =>
                     \A p \in PayloadsOf(cfg) :
                        p.variant = o.variant =>
                            (decl[i].name \in p.keys
                                <=> p.variant \in decl[i].vs)

\* A schema derived for a listed variant and for an unlisted one.
C7_Witness ==
    /\ phase = "class"
    /\ \E i \in DOMAIN decl :
         /\ decl[i].helper = "FieldOnly"
         /\ \E v \in VariantsOf(cfg) \cap decl[i].vs :
              Carries(ClassSchema(v), decl[i].name, decl[i].d)
         /\ \E v \in VariantsOf(cfg) \ decl[i].vs :
              decl[i].name \notin Keys(ClassSchema(v))

(***************************************************************************)
(* C8: a field built with FieldExcept(v1, ..., vn)(d) is present, with     *)
(* descriptor d, in exactly the declared variants that are not listed and  *)
(* absent from every listed variant.  The example payloads carry such a    *)
(* field in no listed variant.                                             *)
(***************************************************************************)
C8_FieldExceptPresence ==
    \A i \in DOMAIN decl :
        (Constructed /\ decl[i].helper = "FieldExcept") =>
            /\ DOMAIN struct.fields[i].spec = VariantsOf(cfg) \ decl[i].vs
            /\ \A o \in ObservedSchemas :
                /\ IF o.variant \in decl[i].vs
                   THEN Absent(o, i)
                   ELSE Carries(o.schema, decl[i].name, decl[i].d)
                /\ ExampleDeclared =>
                     \A p \in PayloadsOf(cfg) :
                        (p.variant = o.variant /\ p.variant \in decl[i].vs)
                            => decl[i].name \notin p.keys

C8_Witness ==
    /\ phase = "class"
    /\ \E i \in DOMAIN decl :
         /\ decl[i].helper = "FieldExcept"
         /\ \E v \in VariantsOf(cfg) \cap decl[i].vs :
              decl[i].name \notin Keys(ClassSchema(v))
         /\ \E v, w \in VariantsOf(cfg) \ decl[i].vs :
              /\ v # w
              /\ Carries(ClassSchema(v), decl[i].name, decl[i].d)
              /\ Carries(ClassSchema(w), decl[i].name, decl[i].d)

(***************************************************************************)
(* C9: a field built with fieldFromKey(keyMap)(d) is present in exactly    *)
(* the variants that are keys of keyMap, with descriptor d in all of them; *)
(* in the schema of variant v it is under keyMap[v] and not under its      *)
(* declared name, unless the two are equal.  The example payloads of v     *)
(* carry keyMap[v] and none of the field's other keys.                     *)
(***************************************************************************)
C9_FieldFromKeyRenames ==
    \A i \in DOMAIN decl :
        (Constructed /\ decl[i].helper = "fieldFromKey") =>
            \A o \in ObservedSchemas :
                /\ IF o.variant \in DOMAIN decl[i].m
                   THEN /\ Carries(o.schema, decl[i].m[o.variant], decl[i].d)
                        /\ \A k \in KeysOfField(i) \ {decl[i].m[o.variant]} :
                             NotUnder(o, i, k)
                   ELSE Absent(o, i)
                /\ ExampleDeclared =>
                     \A p \in PayloadsOf(cfg) :
                        (p.variant = o.variant
                         /\ p.variant \in DOMAIN decl[i].m) =>
                            p.keys \cap KeysOfField(i)
                                = {decl[i].m[p.variant]}

\* A renamed field seen in a variant where its key differs from its name.
C9_Witness ==
    /\ Constructed
    /\ \E i \in DOMAIN decl, o \in ObservedSchemas :
         /\ decl[i].helper = "fieldFromKey"
         /\ o.variant \in DOMAIN decl[i].m
         /\ decl[i].m[o.variant] # decl[i].name
         /\ decl[i].m[o.variant] \in Keys(o.schema)
         /\ decl[i].name \notin Keys(o.schema)

(***************************************************************************)
(* C10: the field set of a synthesized class is the extraction of the      *)
(* default variant; for every other declared variant the class has an      *)
(* accessor of that name whose field set is the extraction of that         *)
(* variant, and it has no other accessor.  The example payloads of a       *)
(* variant fit the schema the class holds for it.                          *)
(***************************************************************************)
C10_ClassAccessors ==
    phase = "class" =>
        /\ IsProjection(struct, cfg.defaultVariant, [fields |-> cls.fields])
        /\ DOMAIN cls.accessors = VariantsOf(cfg) \ {cfg.defaultVariant}
        /\ \A v \in VariantsOf(cfg) \ {cfg.defaultVariant} :
             IsProjection(struct, v, cls.accessors[v])
        /\ ExampleDeclared =>
             \A p \in PayloadsOf(cfg) : Fits(p, ClassSchema(p.variant))

\* A class whose variants differ in their field sets.
C10_Witness ==
    /\ phase = "class"
    /\ \E v \in DOMAIN cls.accessors :
         Keys(cls.accessors[v]) # {cls.fields[j].key : j \in DOMAIN cls.fields}
    /\ \E p \in PayloadsOf(cfg) : p.variant # cfg.defaultVariant

(***************************************************************************)
(* C11: a field written as a plain descriptor is present in the schema of  *)
(* every declared variant, under its declared name and with that same      *)
(* descriptor.  The example payloads of every variant carry the plain      *)
(* fields of their mapping, unless the descriptor is optional.             *)
(***************************************************************************)
C11_PlainFieldEverywhere ==
    \A i \in DOMAIN decl :
        (Constructed /\ decl[i].helper = "Schema") =>
            /\ DOMAIN struct.fields[i].spec = VariantsOf(cfg)
            /\ \A o \in ObservedSchemas :
                /\ Carries(o.schema, decl[i].name, decl[i].d)
                /\ ExampleDeclared =>
                     \A p \in PayloadsOf(cfg) :
                        p.variant = o.variant =>
                            \/ decl[i].name \in p.keys
                            \/ decl[i].d \in OptionalDescriptors

\* A class with a plain field whose variants differ in their other fields.
C11_Witness ==
    /\ phase = "class"
    /\ \E i \in DOMAIN decl : decl[i].helper = "Schema"
    /\ \E v \in DOMAIN cls.accessors :
         Keys(cls.accessors[v]) # {cls.fields[j].key : j \in DOMAIN cls.fields}
    /\ \A v \in DOMAIN cls.accessors :
         \E i \in DOMAIN decl :
            /\ decl[i].helper = "Schema"
            /\ Carries(cls.accessors[v], decl[i].name, decl[i].d)

\* The variants the written field i is declared for, and its key there.
WrittenIn(i) == DOMAIN Eval(cfg, decl[i])

WrittenKey(i, v) ==
    IF decl[i].helper = "fieldFromKey" THEN decl[i].m[v] ELSE decl[i].name

\* Two written fields share an output key in one declared variant.
WrittenCollision ==
    LET written == [i \in DOMAIN decl |-> WrittenIn(i)] IN
    \E i, j \in DOMAIN decl :
        /\ i < j
        /\ \E v \in (written[i] \cap written[j]) \cap VariantsOf(cfg) :
                WrittenKey(i, v) = WrittenKey(j, v)

\* The construction has been attempted.
Attempted == phase # "declaring"

DefinitionErrors ==
    {"UndeclaredVariant", "UnreachableField", "KeyCollision", "EmptyDefault"}

(***************************************************************************)
(* C19: Struct/Class construction fails with a definition error whenever   *)
(* two fields present in the same variant have the same output key after   *)
(* renaming; a construction that succeeds keeps every written field, and   *)
(* every derived schema has one entry per key.  The example mappings have  *)
(* no such collision and construct.                                        *)
(***************************************************************************)
C19_KeyCollisionFails ==
    LET collision == WrittenCollision IN
    /\ (Attempted /\ collision) =>
            /\ phase = "failed"
            /\ error \in DefinitionErrors
            /\ (\A i \in DOMAIN decl : HelperError(cfg, decl[i]) = "none")
                    => error = "KeyCollision"
    /\ Constructed =>
            /\ ~collision
            /\ Len(struct.fields) = Len(decl)
            /\ \A o \in ObservedSchemas :
                 Cardinality(Keys(o.schema)) = Len(o.schema.fields)
    /\ (Attempted /\ decl = ExampleOf(cfg)) => error # "KeyCollision"

\* A construction refused because a rename collides with another field.
C19_Witness ==
    /\ phase = "failed"
    /\ error = "KeyCollision"
    /\ \E i \in DOMAIN decl : decl[i].helper = "fieldFromKey"

(***************************************************************************)
(* C20: FieldExcept(list) fails at construction when list names every      *)
(* declared variant and when list names a variant that is not declared; a  *)
(* constructed FieldExcept field has a list that is a proper subset of the *)
(* declared variants.  The FieldExcept lists of the example mappings are   *)
(* proper subsets and their construction does not fail on them.            *)
(***************************************************************************)
C20_FieldExceptProperSubset ==
    \A i \in DOMAIN decl :
        decl[i].helper = "FieldExcept" =>
            /\ (Attempted /\ decl[i].vs = VariantsOf(cfg)) =>
                    phase = "failed" /\ error \in DefinitionErrors
            /\ (Attempted /\ ~(decl[i].vs \subseteq VariantsOf(cfg))) =>
                    phase = "failed" /\ error \in DefinitionErrors
            /\ (Attempted
                /\ \A h \in 1..(i - 1) : HelperError(cfg, decl[h]) = "none") =>
                    /\ decl[i].vs = VariantsOf(cfg)
                         => error = "UnreachableField"
                    /\ ~(decl[i].vs \subseteq VariantsOf(cfg))
                         => error = "UndeclaredVariant"
            /\ Constructed =>
                    /\ decl[i].vs \subseteq VariantsOf(cfg)
                    /\ decl[i].vs # VariantsOf(cfg)
                    /\ DOMAIN struct.fields[i].spec # {}
            /\ (Attempted /\ decl = ExampleOf(cfg)) =>
                    error \notin {"UnreachableField", "UndeclaredVariant"}

\* A construction refused because a FieldExcept lists every variant.
C20_Witness ==
    /\ phase = "failed"
    /\ error = "UnreachableField"
    /\ \E i \in DOMAIN decl :
         decl[i].helper = "FieldExcept" /\ decl[i].vs = VariantsOf(cfg)

(***************************************************************************)
(* Codec properties (specification CodecSpec).                             *)
(***************************************************************************)
\* What a value holds: a key left undefined is a key left out.
Supplied(o) == [k \in {k \in DOMAIN o : o[k] # Undefined} |-> o[k]]

\* An encoded value has been decoded again by the same variant.
RoundTripped ==
    /\ codec # NoValue
    /\ codec.op = "decode"
    /\ codec.origin # NoValue

\* C12: for every variant v and every value x that v encodes, decoding the
\* encoded value with v succeeds and gives x back; no field of the classes
\* built here is declared lossy, so the equality is over every field.
C12_RoundTrip ==
    RoundTripped =>
        /\ codec.result.ok
        /\ codec.result.value = Supplied(codec.origin)

\* A round trip through a representation that differs from the value: a
\* field stored as JSON text.
C12_Witness ==
    /\ RoundTripped
    /\ codec.result.ok
    /\ \E i \in PresentIn(struct, codec.variant) :
        /\ IsJsonFromString(DescriptorIn(struct, codec.variant, i))
        /\ codec.origin[struct.fields[i].name] = Arr(<< Str("a"), Str("b") >>)
        /\ codec.input[OutputKey(struct.fields[i], codec.variant)]
                = Str("[\"a\",\"b\"]")

\* A call of decode has returned.
Decoding == codec # NoValue /\ codec.op = "decode"

\* The output keys of variant v whose fields reject what ext holds.
Offending(S, v, ext) ==
    {OutputKey(S.fields[i], v) :
        i \in {j \in PresentIn(S, v) : RejectsExternal(S, v, j, ext)}}

\* A decode result that gives no entity and names fields.
Refusal(r) ==
    /\ ~r.ok
    /\ "value" \notin DOMAIN r
    /\ r.errors # {}

\* C13: decode is all-or-nothing.  When a field of the variant rejects the
\* external value, or a field that is not optional is missing from it, the
\* call fails with an error whose paths are output keys of offending fields
\* and gives no entity; an entity is given only when every field accepts.
\* The try block over the three Product payloads logs an entity for each
\* payload decoded before the first failure and for none after it; the
\* payloads written there all decode.
C13_DecodeAllOrNothing ==
    /\ Decoding =>
        LET bad == Offending(struct, codec.variant, codec.input) IN
        /\ bad # {} => Refusal(codec.result) /\ codec.result.errors \subseteq bad
        /\ bad = {} =>
            /\ codec.result.ok
            /\ \A i \in PresentIn(struct, codec.variant) :
                \/ DescriptorIn(struct, codec.variant, i) \in OptionalDescriptors
                \/ Supplies(codec.result.value, struct.fields[i].name)
    /\ (codec # NoValue /\ codec.op = "validate") =>
        /\ codec.caught = NoValue
        /\ Len(codec.logged) = 3

\* An external value with one bad field among good ones has been refused,
\* the error naming that field alone.
C13_Witness ==
    /\ Decoding
    /\ Cardinality(DOMAIN codec.input) > 1
    /\ Cardinality(Offending(struct, codec.variant, codec.input)) = 1
    /\ Refusal(codec.result)
    /\ codec.result.errors = Offending(struct, codec.variant, codec.input)
    /\ \E k \in DOMAIN codec.input :
        /\ k \notin codec.result.errors
        /\ Supplies(codec.input, k)

\* The fields whose time the Model layer manages when variant v is decoded:
\* those declared with one of the presets in helpers.
Timestamps(helpers) ==
    {decl[i].name : i \in {j \in DOMAIN decl : decl[j].helper \in helpers}}

AutoManaged(v) ==
    CASE v = "insert" -> Timestamps({"DateTimeInsert"})
      [] v = "update" -> Timestamps({"DateTimeUpdate"})
      [] OTHER        -> {}

AutoSupplied(v) ==
    CASE v = "insert" -> Timestamps({"DateTimeInsert", "DateTimeUpdate"})
      [] v = "update" -> Timestamps({"DateTimeUpdate"})
      [] OTHER        -> {}

\* C15: when the caller leaves an auto-managed timestamp absent or
\* undefined and gives every other field of the variant, the operation
\* succeeds and the entity carries the time of the call in that field.
C15_AbsentTimestampSupplied ==
    Decoding =>
        LET left == {n \in AutoSupplied(codec.variant) :
                        ~Supplies(codec.input, n)}
        IN (/\ left # {}
            /\ Offending(struct, codec.variant, codec.input) \subseteq left)
           => /\ codec.result.ok
              /\ \A n \in left :
                    /\ Supplies(codec.result.value, n)
                    /\ codec.result.value[n] = Str(codec.now)

\* The variants that carry the storage representation.
StorageVariants == {"select", "insert", "update"}

\* The field of the class built that is named n, 0 when there is none.
Built(n) ==
    IF phase = "class" /\ \E i \in DOMAIN struct.fields : struct.fields[i].name = n
    THEN CHOOSE i \in DOMAIN struct.fields : struct.fields[i].name = n
    ELSE 0

Encoding == codec # NoValue /\ codec.op = "encode"

\* The call took a value for field n and returned one.
Carried(n) ==
    /\ codec # NoValue
    /\ codec.op \in {"encode", "decode"}
    /\ codec.result.ok
    /\ Supplies(codec.input, n)

AB == Arr(<< Str("a"), Str("b") >>)

\* C16: the JsonFromString(Array(String)) field tags of Product is a string
\* in the select, insert and update variants and an array of strings in the
\* json variant; encoding a value for a storage variant gives the JSON text
\* of its tags, "[\"a\",\"b\"]" for ["a","b"], and decoding that text
\* gives ["a","b"] back; the json variant keeps the array as it is.
C16_JsonFromString ==
    LET n == ProductTags.name
        i == Built(n)
    IN i # 0 =>
        /\ \A v \in StorageVariants :
            /\ v \in DOMAIN struct.fields[i].spec
            /\ DescriptorIn(struct, v, i) = JsonFromStringOf("ArrayOfString")
        /\ "json" \in DOMAIN struct.fields[i].spec
        /\ DescriptorIn(struct, "json", i) = "ArrayOfString"
        /\ (Encoding /\ Carried(n) /\ codec.variant \in StorageVariants) =>
            /\ IsString(codec.result.value[n])
            /\ codec.result.value[n] = Str(Stringify(codec.input[n]))
            /\ codec.input[n] = AB =>
                    codec.result.value[n] = Str("[\"a\",\"b\"]")
        /\ (Decoding /\ Carried(n) /\ codec.variant \in StorageVariants) =>
            /\ IsString(codec.input[n])
            /\ ArrayOfString(codec.result.value[n])
            /\ codec.input[n] = Str("[\"a\",\"b\"]") =>
                    codec.result.value[n] = AB
        /\ (Carried(n) /\ codec.variant = "json") =>
            /\ ArrayOfString(codec.input[n])
            /\ codec.result.value[n] = codec.input[n]

\* ["a","b"] has been encoded for the insert variant and the text decoded.
C16_Witness ==
    /\ Built(ProductTags.name) # 0
    /\ RoundTripped
    /\ codec.variant = "insert"
    /\ codec.origin[ProductTags.name] = AB
    /\ codec.input[ProductTags.name] = Str("[\"a\",\"b\"]")
    /\ codec.result.ok
    /\ codec.result.value[ProductTags.name] = AB

\* C17: the BooleanFromNumber field completed of Task is stored as the
\* integer 0 or 1 and seen as a boolean: in a storage variant 1 decodes to
\* true and 0 to false, false encodes to 0 and true to 1, and nothing else
\* is taken.
C17_BooleanFromNumber ==
    LET n == TaskCompleted.name
        i == Built(n)
    IN i # 0 =>
        /\ \A v \in StorageVariants :
            /\ v \in DOMAIN struct.fields[i].spec
            /\ DescriptorIn(struct, v, i) = "BooleanFromNumber"
        /\ (Encoding /\ Carried(n) /\ codec.variant \in StorageVariants) =>
            /\ IsBoolean(codec.input[n])
            /\ codec.result.value[n] = Num(IF codec.input[n].b THEN 1 ELSE 0)
        /\ (Decoding /\ Carried(n) /\ codec.variant \in StorageVariants) =>
            /\ codec.input[n] \in {Num(0), Num(1)}
            /\ codec.result.value[n] = Bool(codec.input[n] = Num(1))
        /\ (Carried(n) /\ codec.variant = "json") =>
            /\ IsBoolean(codec.input[n])
            /\ codec.result.value[n] = codec.input[n]

\* The completed: false of the createTask call has been encoded for insert
\* as 0, and the 0 decoded as false.
C17_Witness ==
    /\ Built(TaskCompleted.name) # 0
    /\ RoundTripped
    /\ codec.variant = "insert"
    /\ codec.origin[TaskCompleted.name] = CreateTaskCompleted
    /\ codec.input[TaskCompleted.name] = Num(0)
    /\ codec.result.ok
    /\ codec.result.value[TaskCompleted.name] = Bool(FALSE)

\* C18: the GeneratedByApp field orderNumber of Order is present in the
\* select, insert, update and json variants with the descriptor written,
\* and a call that returns a value carries the caller's order number; a
\* call that is given none fails instead of making one up.
C18_GeneratedByApp ==
    LET n == OrderNumber.name
        i == Built(n)
    IN i # 0 =>
        /\ \A v \in {"select", "insert", "update", "json"} :
            /\ v \in DOMAIN struct.fields[i].spec
            /\ DescriptorIn(struct, v, i) = OrderNumber.d
        /\ Carried(n) =>
            /\ Supplies(codec.result.value, n)
            /\ codec.result.value[n] = codec.input[n]
        /\ (/\ codec # NoValue
            /\ codec.op \in {"encode", "decode"}
            /\ ~Supplies(codec.input, n)) => ~codec.result.ok

\* The order number of the createOrder call has been encoded for insert.
C18_Witness ==
    /\ Built(OrderNumber.name) # 0
    /\ Encoding
    /\ codec.variant = "insert"
    /\ Carried(OrderNumber.name)
    /\ codec.input[OrderNumber.name] = CreateOrderNumber(codec.now)
    /\ codec.result.value[OrderNumber.name] = CreateOrderNumber(codec.now)

(***************************************************************************)
(* Construction errors and shared descriptors (specification Spec).        *)
(***************************************************************************)
\* The written field i is a Field map with a key that is no declared variant.
MapsUndeclared(i) ==
    /\ decl[i].helper = "Field"
    /\ ~(DOMAIN decl[i].m \subseteq VariantsOf(cfg))

\* No helper call before the i-th written field raises an error.
FirstToFail(i) == \A h \in 1..(i - 1) : HelperError(cfg, decl[h]) = "none"

\* C21: a Field map with a key that is not a declared variant makes the
\* construction fail with a definition error (UndeclaredVariant when it is
\* the first failing helper); the FieldSpecs of a constructed StructSpec
\* mention declared variants only.  The Field maps of the example mappings
\* name declared variants.
C21_FieldMapDeclaredVariants ==
    /\ \A i \in DOMAIN decl :
        (Attempted /\ MapsUndeclared(i)) =>
            /\ phase = "failed"
            /\ error \in DefinitionErrors
            /\ FirstToFail(i) => error = "UndeclaredVariant"
    /\ Constructed =>
        /\ \A i \in DOMAIN decl : ~MapsUndeclared(i)
        /\ \A j \in DOMAIN struct.fields :
            DOMAIN struct.fields[j].spec \subseteq VariantsOf(cfg)
    /\ (Attempted /\ decl = ExampleOf(cfg)) => error # "UndeclaredVariant"

\* A construction refused because of the key of a Field map.
C21_Witness ==
    /\ phase = "failed"
    /\ error = "UndeclaredVariant"
    /\ struct = NoValue
    /\ \E i \in DOMAIN decl : MapsUndeclared(i) /\ FirstToFail(i)

\* No written field is declared for the default variant.
NoDefaultField ==
    \A i \in DOMAIN decl : cfg.defaultVariant \notin WrittenIn(i)

\* C22: a mapping none of whose fields is present in the default variant
\* is refused with a definition error (EmptyDefault when nothing else is
\* wrong with it), so the default variant's extracted schema of a
\* constructed StructSpec has at least one field.  The example mappings
\* are not refused for it.
C22_DefaultVariantNonEmpty ==
    LET none == NoDefaultField IN
    /\ (Attempted /\ none) =>
        /\ phase = "failed"
        /\ error \in DefinitionErrors
        /\ ((\A i \in DOMAIN decl : HelperError(cfg, decl[i]) = "none")
                /\ ~WrittenCollision) => error = "EmptyDefault"
    /\ Constructed =>
        /\ ~none
        /\ Len(extract(struct, struct.defaultVariant).fields) > 0
        /\ phase = "class" => Len(cls.fields) > 0
        /\ \A o \in ObservedSchemas :
            o.variant = cfg.defaultVariant => Len(o.schema.fields) > 0
    /\ (Attempted /\ decl = ExampleOf(cfg)) => error # "EmptyDefault"

\* A mapping with a field, none in the default variant, has been refused.
C22_Witness ==
    /\ phase = "failed"
    /\ error = "EmptyDefault"
    /\ decl # <<>>
    /\ NoDefaultField

\* The descriptor schema sch holds under key k, NoDescriptor when none.
DescriptorUnder(sch, k) ==
    IF k \in Keys(sch)
    THEN (CHOOSE e \in Range(sch.fields) : e.key = k).descriptor
    ELSE NoDescriptor

\* C25: a field built with FieldOnly(a, b, ...)(d) has, in the schema
\* extracted for each listed variant, the descriptor d under its name: the
\* same in all of them.  retries of ApiConfig, FieldOnly("production",
\* "staging"), has one descriptor in the staging and production schemas.
C25_FieldOnlySameDescriptor ==
    /\ \A i \in DOMAIN decl :
        (Constructed /\ decl[i].helper = "FieldOnly") =>
            /\ \A a \in decl[i].vs :
                LET sa == extract(struct, a) IN
                /\ decl[i].name \in Keys(sa)
                /\ \A b \in decl[i].vs :
                    DescriptorUnder(sa, decl[i].name)
                        = DescriptorUnder(extract(struct, b), decl[i].name)
            /\ \A o \in ObservedSchemas :
                o.variant \in decl[i].vs =>
                    DescriptorUnder(o.schema, decl[i].name) = decl[i].d
    /\ (ExampleDeclared /\ cfg = EnvironmentConfig) =>
        /\ DescriptorUnder(extract(struct, "staging"), "retries")
                # NoDescriptor
        /\ DescriptorUnder(extract(struct, "staging"), "retries")
                = DescriptorUnder(extract(struct, "production"), "retries")

\* The class of ApiConfig holds retries for staging and for production.
C25_Witness ==
    /\ phase = "class"
    /\ cfg = EnvironmentConfig
    /\ \E i \in DOMAIN decl :
        /\ decl[i].helper = "FieldOnly"
        /\ decl[i].vs = {"production", "staging"}
        /\ DescriptorUnder(cls.accessors["staging"], decl[i].name) = "Number"
        /\ DescriptorUnder(cls.accessors["production"], decl[i].name)
                = "Number"

(***************************************************************************)
(* Evolved fields and reachability (specification EvolveSpec).             *)
(***************************************************************************)
\* The written field i is the result of fieldEvolve.
Evolved(i) == decl[i].helper = "fieldEvolve"

\* The variants schema-deriving shows the constructed field j in.
ShownIn(j) ==
    {v \in VariantsOf(cfg) \cap DOMAIN struct.fields[j].spec :
        \E e \in Range(extract(struct, v).fields) :
            /\ e.key = OutputKey(struct.fields[j], v)
            /\ e.descriptor = struct.fields[j].spec[v].descriptor}

\* C26: the field fieldEvolve returns is present in exactly the variants
\* its input field is present in, whatever variants the transforms name; a
\* variant without a transform keeps its descriptor and output key, and
\* the schemas derived show the evolved field in those variants only.
C26_EvolveKeepsPresence ==
    \A i \in DOMAIN decl :
        (Constructed /\ Evolved(i)) =>
            LET base == Eval(cfg, decl[i].base) IN
            /\ DOMAIN struct.fields[i].spec = DOMAIN base
            /\ \A v \in DOMAIN base \ DOMAIN decl[i].t :
                struct.fields[i].spec[v] = base[v]
            /\ ShownIn(i) = DOMAIN base
            /\ \A o \in ObservedSchemas :
                o.variant \notin DOMAIN base =>
                    \A e \in Range(o.schema.fields) : e.key # decl[i].name

\* A field has been evolved with a transform for a variant it is absent
\* from and one for a variant it is present in, and the struct is built.
C26_Witness ==
    /\ Constructed
    /\ \E i \in DOMAIN decl :
        /\ Evolved(i)
        /\ DOMAIN decl[i].t \ DOMAIN struct.fields[i].spec # {}
        /\ \E v \in DOMAIN decl[i].t \cap DOMAIN struct.fields[i].spec :
            struct.fields[i].spec[v] # Eval(cfg, decl[i].base)[v]

\* The written field e was given no variant to be present in.
RECURSIVE GivenNoVariant(_)
GivenNoVariant(e) ==
    CASE e.helper \in {"Field", "fieldFromKey"} -> DOMAIN e.m = {}
      [] e.helper = "FieldOnly"                 -> e.vs = {}
      [] e.helper = "fieldEvolve"               -> GivenNoVariant(e.base)
      [] OTHER                                  -> FALSE

Calls ==
    {[variant |-> callers[p].variant, result |-> callers[p].result] :
        p \in {q \in Callers : callers[q].pc \in {"done", "failed"}}}
    \cup returned

IsSchema(r) == "fields" \in DOMAIN r

\* C23: a call of extract with a variant the StructSpec does not declare
\* fails at once, before any lookup or computation, with a programming
\* error: no such call ever holds or returns a schema, not even an empty
\* one, and no memo entry is made for such a variant.
C23_UndeclaredVariantFails ==
    /\ \A p \in Callers :
        (callers[p].variant # NoVariant
            /\ callers[p].variant \notin VariantsOf(cfg)) =>
            /\ callers[p].pc = "failed"
            /\ callers[p].result = [error |-> "ProgrammingError"]
    /\ \A r \in Calls :
        r.variant \notin VariantsOf(cfg) => ~IsSchema(r.result)
    /\ \A k \in DOMAIN cache : k \in VariantsOf(cfg)

C23_Witness ==
    /\ \E r \in returned : r.variant = Undeclared
    /\ \E p \in Callers : callers[p].pc = "failed"
    /\ cache # NoMap

\* Every schema obtained for a variant: by the direct extraction and by the
\* memoized calls, finished or returned.
SchemasFor(v) ==
    {r.result : r \in {c \in Calls : c.variant = v}}
    \cup (IF extracted # NoValue /\ extracted.variant = v
          THEN {extracted.schema} ELSE {})

AsConstructed ==
    /\ struct.variants = cfg.variants
    /\ struct.defaultVariant = cfg.defaultVariant
    /\ struct = Struct(cfg, decl)

ObservesPureExtraction ==
    /\ \A p \in Callers :
        callers[p].pc \in {"publish", "done"} =>
            callers[p].result = extract(struct, callers[p].variant)
    /\ \A r \in returned :
        r.variant \in VariantsOf(cfg) => r.result = extract(struct, r.variant)
    /\ \A k \in DOMAIN cache : cache[k] = extract(struct, k)

\* C28: with lazily memoized extraction, concurrent first accesses to one
\* (StructSpec, variant) are race-free: every caller observes the schema
\* the pure extraction yields, and an entry once published is never
\* removed nor replaced by a different schema.
C28_MemoizationRaceFree ==
    /\ []ObservesPureExtraction
    /\ [][\A k \in DOMAIN cache :
            k \in DOMAIN cache' /\ cache'[k] = cache[k]]_vars

\* Both callers missed the entry of one variant and computed it; the first
\* has published, the second is about to.
C28_Witness ==
    /\ returned = {}
    /\ callers[1].pc = "done"
    /\ callers[2].pc = "publish"
    /\ callers[1].variant = callers[2].variant
    /\ DOMAIN cache = {CacheKey(callers[1].variant)}

\* Nothing has been derived from the declarations.
NothingRan ==
    /\ struct = NoValue
    /\ cls = NoValue
    /\ extracted = NoValue
    /\ codec = NoValue
    /\ cache = NoMap
    /\ returned = {}
    /\ \A p \in Callers : callers[p] = Idle

\* An extraction, a decode or an encode has run or is running.
SomethingRan ==
    \/ extracted # NoValue
    \/ codec # NoValue
    \/ returned # {}
    \/ \E p \in Callers : callers[p] # Idle

\* The result of a codec call is an entity made of what every field's own
\* conversion gives, or a failure that carries no value and names fields.
TypedResult ==
    LET S == struct
        v == codec.variant
        x == codec.input
        r == codec.result
    IN \/ /\ Refusal(r)
          /\ \E i \in PresentIn(S, v) :
                IF codec.op = "decode" THEN RejectsExternal(S, v, i, x)
                ELSE RejectsCanonical(S, v, i, x)
       \/ /\ r.ok
          /\ r.errors = {}
          /\ \A i \in PresentIn(S, v) :
                LET d == DescriptorIn(S, v, i)
                    n == S.fields[i].name
                    k == OutputKey(S.fields[i], v)
                IN IF codec.op = "decode"
                   THEN IF Supplies(x, k)
                        THEN /\ DecodeValue(d, x[k]).ok
                             /\ r.value[n] = DecodeValue(d, x[k]).value
                        ELSE n \notin DOMAIN r.value
                   ELSE IF Supplies(x, n)
                        THEN /\ EncodeValue(d, x[n]).ok
                             /\ r.value[k] = EncodeValue(d, x[n]).value
                        ELSE k \notin DOMAIN r.value

\* C29: definition errors (an undeclared variant, a collision of output
\* keys, an empty default schema) are raised by construction only and abort
\* it: a failed construction leaves no StructSpec, no class and nothing
\* derived, and every extraction, decode and encode runs on a StructSpec
\* whose declarations have no definition error.  A decode or an encode
\* that fails gives a failure naming fields and no value; one that succeeds
\* gives exactly what the fields' conversions give.
C29_DefinitionErrorsAtConstruction ==
    LET raised == StructError(cfg, decl) IN
    /\ error # "none" <=> phase = "failed"
    /\ phase = "failed" =>
        /\ error \in DefinitionErrors
        /\ error = raised
        /\ NothingRan
    /\ (Attempted /\ raised # "none") => phase = "failed"
    /\ SomethingRan =>
        /\ Constructed
        /\ raised = "none"
        /\ struct # NoValue
    /\ (codec # NoValue /\ codec.op \in {"encode", "decode"}) => TypedResult

\* A construction over an example mapping aborted on a variant that is not
\* declared.
C29_Witness ==
    /\ phase = "failed"
    /\ error = "UndeclaredVariant"
    /\ Len(decl) > 1
    /\ NothingRan

====
